---- MODULE Spec2Model ----
(***************************************************************************)
(* DataPrism backend (backend/app/services.py): the versioned table        *)
(* catalog kept in the dw_meta schema, its version manager (clean / undo), *)
(* the derivations (merge / reshape), the column profiler and the primary  *)
(* key and relation inference.                                             *)
(*                                                                         *)
(* Every service function is one action; the engine (DuckDB / polars) is   *)
(* modelled by what its statements compute on small tables.                *)
(***************************************************************************)
EXTENDS Integers, Sequences, FiniteSets, TLC

(***************************************************************************)
(* Bounds of the model.                                                    *)
(***************************************************************************)
MaxImports == 2       \* imported rows of dw_meta.tables
MaxDerived == 1       \* derived rows of dw_meta.tables
MaxCleans == 2        \* clean calls, hence rows of dw_meta.operation_logs
MaxRelations == 1     \* rows of dw_meta.relation_edges
MaxPrimaryKeys == 1   \* rows of dw_meta.primary_keys
MaxRowCleans == 1     \* clean calls of the inference specification
MaxSnapshots == 3     \* physical tables of the storage-step specification

(***************************************************************************)
(* Generic helpers.                                                        *)
(***************************************************************************)
Range(s) == {s[i] : i \in DOMAIN s}

RECURSIVE Rev(_)
Rev(s) == IF s = <<>> THEN <<>> ELSE Rev(Tail(s)) \o <<Head(s)>>

(***************************************************************************)
(* Text.  A string is a sequence of one-character strings, so that trim,   *)
(* lower, str() and the identifier sanitiser are computed, not assumed.    *)
(***************************************************************************)
DigitChars == <<"0", "1", "2", "3", "4", "5", "6", "7", "8", "9">>

RECURSIVE Str(_)
\* Python str(n) / SQL cast(n as varchar) of a natural number
Str(n) == IF n < 10 THEN <<DigitChars[n + 1]>>
          ELSE Str(n \div 10) \o <<DigitChars[(n % 10) + 1]>>

IsSpace(ch) == ch = " "

RECURSIVE LTrim(_)
LTrim(s) == IF s # <<>> /\ IsSpace(Head(s)) THEN LTrim(Tail(s)) ELSE s

Trim(s) == Rev(LTrim(Rev(LTrim(s))))

LowerChar(ch) ==
    CASE ch = "A" -> "a"
      [] ch = "B" -> "b"
      [] ch = "N" -> "n"
      [] OTHER -> ch

Lower(s) == [i \in DOMAIN s |-> LowerChar(s[i])]

IsAlnum(ch) ==
    ch \in (Range(DigitChars)
            \cup {"a", "b", "c", "d", "e", "f", "l", "n", "t", "v", "A", "B", "N"})

(***************************************************************************)
(* Cell values of the engine: NULL, an integer, a double (a reduced        *)
(* fraction i/d, so that avg() and median() are exact), NaN, or a text.    *)
(***************************************************************************)
Null == [t |-> "null", i |-> 0, d |-> 1, s |-> <<>>]
NaN == [t |-> "nan", i |-> 0, d |-> 1, s |-> <<>>]
IntV(n) == [t |-> "int", i |-> n, d |-> 1, s |-> <<>>]
StrV(s) == [t |-> "str", i |-> 0, d |-> 1, s |-> s]

RECURSIVE Gcd(_, _)
Gcd(a, b) == IF b = 0 THEN a ELSE Gcd(b, a % b)

\* the double n/m, m > 0, n >= 0
DblV(n, m) == LET g == Gcd(n, m)
              IN [t |-> "dbl", i |-> n \div g, d |-> m \div g, s |-> <<>>]

IsNull(v) == v.t = "null"
IsNumber(v) == v.t \in {"int", "dbl"}

\* cast(v as double) of a number
ToDouble(v) == IF v.t = "int" THEN DblV(v.i, 1) ELSE v

\* cast(v as varchar): NULL stays NULL; an integral double prints as "n.0",
\* any other double as its reduced fraction "n/d", which stands for the
\* decimal expansion (both are injective on doubles and never a bare integer)
CastVarchar(v) ==
    CASE v.t = "null" -> Null
      [] v.t = "int" -> StrV(Str(v.i))
      [] v.t = "dbl" -> IF v.d = 1 THEN StrV(Str(v.i) \o <<".", "0">>)
                        ELSE StrV(Str(v.i) \o <<"/">> \o Str(v.d))
      [] v.t = "nan" -> StrV(<<"n", "a", "n">>)
      [] OTHER -> v

NumericTypes == {"INTEGER", "INT", "INT4", "BIGINT", "INT8",
                 "DOUBLE", "FLOAT", "FLOAT8", "REAL", "DECIMAL"}
IntegerTypes == {"INTEGER", "INT", "INT4", "BIGINT", "INT8"}
FloatTypes == {"DOUBLE", "FLOAT", "FLOAT8", "REAL", "DECIMAL"}
TextTypes == {"VARCHAR", "TEXT"}

(***************************************************************************)
(* Physical tables of the engine.  A snapshot is                           *)
(*   [cols |-> sequence of [name, type], rows |-> sequence of rows],       *)
(* a row being the sequence of its cells in column order.  Column names    *)
(* are texts (sequences of characters).                                    *)
(***************************************************************************)
Col(name, type) == [name |-> name, type |-> type]

\* _list_columns: the column names of a physical table, in order
ListColumns(snap) == [i \in DOMAIN snap.cols |-> snap.cols[i].name]

ColIdx(snap, c) == CHOOSE i \in DOMAIN snap.cols : snap.cols[i].name = c
ColType(snap, c) == snap.cols[ColIdx(snap, c)].type

\* the cells of column c, in row order
ColumnValues(snap, c) ==
    [r \in DOMAIN snap.rows |-> snap.rows[r][ColIdx(snap, c)]]

(***************************************************************************)
(* Column names and the tabular sources an import can be handed.           *)
(***************************************************************************)
cId == <<"i", "d">>
cAId == <<"a", "_", "i", "d">>
cN == <<"n">>
cQ == <<"q">>
cZ == <<"z">>          \* a name that is a column of no source

tA == <<"a">>
tB == <<"b">>
tSpA == <<" ", "A">>
tNA == <<"N", "A">>

\* "customers": id unique 1..2, n an untrimmed text and a missing-value token
SrcCustomers ==
    [cols |-> <<Col(cId, "BIGINT"), Col(cN, "VARCHAR")>>,
     rows |-> << <<IntV(1), StrV(tSpA)>>, <<IntV(2), StrV(tNA)>> >>]

\* "orders": a_id unique 1..4, id = 1, 2, 3, NULL, q one of two texts
SrcOrders ==
    [cols |-> <<Col(cAId, "BIGINT"), Col(cId, "BIGINT"), Col(cQ, "VARCHAR")>>,
     rows |-> << <<IntV(1), IntV(1), StrV(tA)>>, <<IntV(2), IntV(2), StrV(tB)>>,
                 <<IntV(3), IntV(3), StrV(tA)>>, <<IntV(4), Null, StrV(tB)>> >>]

Sources == {SrcCustomers, SrcOrders}

(***************************************************************************)
(* Identifiers.                                                            *)
(***************************************************************************)
\* utils.new_id(prefix): prefix, "-", and a hex text no earlier call returned.
\* The model takes the text of n, n counting the rows already stored under
\* the prefix (no row with a new_id key is ever deleted), so it is fresh.
new_id(prefix, n) == prefix \o <<"-">> \o Str(n)

\* the hex text of a version id: the table's number, "f", and the count of
\* the table's version rows; fresh for the same reason
VerHex(table_id, n) == SubSeq(table_id, 7, Len(table_id)) \o <<"f">> \o Str(n)

pTable == <<"t", "a", "b", "l", "e">>
pVer == <<"v", "e", "r">>
pOp == <<"o", "p">>
pRel == <<"r", "e", "l">>
pLin == <<"l", "i", "n">>

NoId == <<>>          \* SQL NULL in an id column

\* a name made of the table id alone
PhysicalNameOfTable(table_id, version) ==
    LET safe == [k \in DOMAIN table_id |->
                   IF IsAlnum(table_id[k]) \/ table_id[k] = "_"
                   THEN table_id[k] ELSE "_"]
    IN <<"t", "_">> \o safe

\* _physical_name(table_id, version)
_physical_name(table_id, version) ==
    LET safe == [k \in DOMAIN table_id |->
                   IF IsAlnum(table_id[k]) \/ table_id[k] = "_"
                   THEN table_id[k] ELSE "_"]
    IN <<"t", "_">> \o safe \o <<"_", "v">> \o Str(version)

(***************************************************************************)
(* State: the dw_meta catalog, the engine's physical tables, the clock     *)
(* and what the last call returned.                                        *)
(***************************************************************************)
VARIABLES
    tables,                  \* dw_meta.tables: id -> [source_type, dirty]
    table_versions,          \* dw_meta.table_versions: set of rows
    physical,                \* the engine: physical name -> snapshot
    primary_keys,            \* dw_meta.primary_keys: table_id -> fields
    primary_keys_inferred,   \* dw_meta.primary_keys_inferred: table_id -> fields
    column_profiles,         \* dw_meta.column_profiles: set of rows
    relation_edges,          \* dw_meta.relation_edges: set of rows
    relation_edges_inferred, \* dw_meta.relation_edges_inferred: set of rows
    lineage_edges,           \* dw_meta.lineage_edges: set of rows
    operation_logs,          \* dw_meta.operation_logs: set of rows
    clock,                   \* number of utcnow() readings stored in the log
    result                   \* the last call and what it returned or raised

vars == <<tables, table_versions, physical, primary_keys, primary_keys_inferred,
          column_profiles, relation_edges, relation_edges_inferred,
          lineage_edges, operation_logs, clock, result>>

\* the part of the state that version management writes
versionVars == <<tables, table_versions, physical, lineage_edges,
                 operation_logs, clock>>
\* the stores of the inference
inferenceVars == <<primary_keys_inferred, column_profiles,
                   relation_edges_inferred>>

\* a call that returned (every such result names the call), a call that raised
Returned(call) == [status |-> "ok", call |-> call]
Raised(exc) == [status |-> exc]

\* db._init_schema: every dw_meta table exists and is empty
Init ==
    /\ tables = <<>>
    /\ table_versions = {}
    /\ physical = <<>>
    /\ primary_keys = <<>>
    /\ primary_keys_inferred = <<>>
    /\ column_profiles = {}
    /\ relation_edges = {}
    /\ relation_edges_inferred = {}
    /\ lineage_edges = {}
    /\ operation_logs = {}
    /\ clock = 0
    /\ result = Returned("init")

\* f with key k set to v (insert or replace)
Put(f, k, v) == [x \in (DOMAIN f) \cup {k} |-> IF x = k THEN v ELSE f[x]]
\* f without key k
Drop(f, k) == [x \in (DOMAIN f) \ {k} |-> f[x]]

(***************************************************************************)
(* Version manager.                                                        *)
(***************************************************************************)
VersionsOf(tv, table_id) == {v \in tv : v.table_id = table_id}
ActiveOf(tv, table_id) == {v \in VersionsOf(tv, table_id) : v.is_active}

\* _active_physical_name: "limit 1" takes any active row; HasActive is the
\* test that raises KeyError
HasActive(table_id) == ActiveOf(table_versions, table_id) # {}
_active_physical_name(table_id) ==
    (CHOOSE v \in ActiveOf(table_versions, table_id) : TRUE).physical_name

ActiveSnapshot(table_id) == physical[_active_physical_name(table_id)]

Max(S) == CHOOSE x \in S : \A y \in S : y <= x

\* a numbering that skips a number at every new version
NextVersionSkipping(table_id) ==
    LET vs == {v.version : v \in {w \in table_versions : w.table_id = table_id}}
    IN (IF vs = {} THEN 0 ELSE CHOOSE x \in vs : \A y \in vs : y <= x) + 2

\* _next_version: max(version) of the table's rows, 0 when none, plus 1
_next_version(table_id) ==
    LET vs == {v.version : v \in VersionsOf(table_versions, table_id)}
    IN (IF vs = {} THEN 0 ELSE Max(vs)) + 1

\* an activation that leaves out the first update (no row is deactivated)
SetActiveWithoutClearing(tv, table_id, new_version_id) ==
    {IF v.id = new_version_id /\ v.table_id = table_id
     THEN [v EXCEPT !.is_active = TRUE] ELSE v : v \in tv}

\* an activation that leaves out the second update (no row is activated)
SetActiveClearingOnly(tv, table_id, new_version_id) ==
    {IF v.table_id = table_id
     THEN [v EXCEPT !.is_active = FALSE] ELSE v : v \in tv}

\* _set_active_version: the two updates of dw_meta.table_versions
_set_active_version(tv, table_id, new_version_id) ==
    LET cleared == {IF v.table_id = table_id
                    THEN [v EXCEPT !.is_active = FALSE] ELSE v : v \in tv}
    IN {IF v.id = new_version_id /\ v.table_id = table_id
        THEN [v EXCEPT !.is_active = TRUE] ELSE v : v \in cleared}

VersionRow(id, table_id, version, physical_name, is_active) ==
    [id |-> id, table_id |-> table_id, version |-> version,
     physical_name |-> physical_name, op_log_id |-> NoId,
     is_active |-> is_active]

TablesOfType(source_type) ==
    {t \in DOMAIN tables : tables[t].source_type = source_type}

NewTableId == new_id(pTable, Cardinality(DOMAIN tables) + 1)
NewVersionId(table_id) ==
    pVer \o <<"-">> \o
    VerHex(table_id, Cardinality(VersionsOf(table_versions, table_id)) + 1)

\* import_csv / import_xlsx, called with a fresh table id (routers/projects.py
\* import_file, seed.ensure_demo_project): materialises the source as version 1
import_csv(src) ==
    LET table_id == NewTableId
        phys == _physical_name(table_id, 1)
    IN /\ Cardinality(TablesOfType("imported")) < MaxImports
       /\ physical' = Put(physical, phys, src)
       /\ tables' = Put(tables, table_id,
                        [source_type |-> "imported", dirty |-> FALSE])
       /\ table_versions' = table_versions \cup
            {VersionRow(NewVersionId(table_id), table_id, 1, phys, TRUE)}
       /\ result' = [status |-> "ok", call |-> "import", tableId |-> table_id]
       /\ UNCHANGED <<primary_keys, primary_keys_inferred, column_profiles,
                      relation_edges, relation_edges_inferred, lineage_edges,
                      operation_logs, clock>>

Import == \E src \in Sources : import_csv(src)

(***************************************************************************)
(* clean_table: what the engine computes for the new snapshot.             *)
(***************************************************************************)
\* a row-scope filter as a request carries it
Filter(field, op, value) == [field |-> field, op |-> op, value |-> value]

CleanFilterOps == {"isnull", "notnull", "contains", "eq", "neq"}

\* does text sub occur in text s
Contains(s, sub) ==
    \E k \in 0..(Len(s) - Len(sub)) :
       \A j \in 1..Len(sub) : s[k + j] = sub[j]

\* numbers compare by value whatever their type, texts by their characters
SqlEq(a, b) ==
    IF IsNumber(a) /\ IsNumber(b) THEN a.i * b.d = b.i * a.d ELSE a = b

\* one predicate of the where clause is TRUE on the row (SQL NULL is not TRUE)
FilterTrue(snap, row, f) ==
    LET cell == row[ColIdx(snap, f.field)]
    IN CASE f.op = "isnull" -> IsNull(cell)
         [] f.op = "notnull" -> ~IsNull(cell)
         [] f.op = "contains" ->
               /\ cell.t = "str"
               /\ Contains(Lower(cell.s), Lower(f.value.s))
         [] f.op = "eq" -> ~IsNull(cell) /\ SqlEq(cell, f.value)
         [] f.op = "neq" -> ~IsNull(cell) /\ ~SqlEq(cell, f.value)
         [] OTHER -> FALSE

\* scope_sql: the conjunction of the filters, "true" without filters
InScope(snap, row, filters) ==
    \A k \in DOMAIN filters : FilterTrue(snap, row, filters[k])

\* "<em-dash>" is the one character U+2014
MissingTokens ==
    {<<>>, <<"n", "a">>, <<"n", "/", "a">>, <<"n", "u", "l", "l">>,
     <<"n", "o", "n", "e">>, <<"n", "a", "n">>, <<"-">>, <<"<em-dash>">>,
     <<"-", "-">>, <<"?">>, <<"9", "9", "9", "9">>}

\* sum of a sequence of doubles, as a double
RECURSIVE SumDbl(_)
SumDbl(vs) ==
    IF vs = <<>> THEN DblV(0, 1)
    ELSE LET h == Head(vs)
             r == SumDbl(Tail(vs))
         IN DblV(h.i * r.d + r.i * h.d, h.d * r.d)

NonNull(vs) == SelectSeq(vs, LAMBDA v : ~IsNull(v))

\* avg(c): NULL over no value
Avg(vs) ==
    LET xs == NonNull(vs)
        sm == SumDbl([k \in DOMAIN xs |-> ToDouble(xs[k])])
    IN IF xs = <<>> THEN Null ELSE DblV(sm.i, sm.d * Len(xs))

\* a before b, as numbers
NumLess(a, b) == a.i * b.d < b.i * a.d

\* median(c): the middle of the sorted values, the mean of the two middle
\* ones for an even count; NULL over no value
Median(vs) ==
    LET xs == NonNull(vs)
        n == Len(xs)
        \* the k-th smallest: the value with fewer than k values before it
        \* and at least k values not after it
        Kth(k) == CHOOSE v \in Range(xs) :
                    /\ Cardinality({j \in 1..n : NumLess(xs[j], v)}) < k
                    /\ Cardinality({j \in 1..n : ~NumLess(v, xs[j])}) >= k
    IN IF n = 0 THEN Null
       ELSE IF n % 2 = 1 THEN ToDouble(Kth((n + 1) \div 2))
       ELSE Avg(<<Kth(n \div 2), Kth(n \div 2 + 1)>>)

\* the select expression clean_table builds for a cell of selected column c
CleanCell(snap, action, filters, col, row, fill) ==
    LET cell == row[ColIdx(snap, col)]
        tok == CastVarchar(cell)
    IN CASE action = "trim" ->
              IF InScope(snap, row, filters) /\ ~IsNull(cell)
              THEN StrV(Trim(cell.s)) ELSE cell
         [] action = "lowercase" ->
              IF InScope(snap, row, filters) /\ ~IsNull(cell)
              THEN StrV(Lower(tok.s)) ELSE cell
         [] action = "standardize-missing" ->
              IF /\ InScope(snap, row, filters)
                 /\ ~IsNull(cell)
                 /\ Lower(Trim(tok.s)) \in MissingTokens
              THEN Null ELSE cell
         [] OTHER ->  \* fill-mean, fill-median: coalesce(c, ?)
              IF IsNull(fill) THEN cell
              ELSE IF IsNull(cell) THEN fill ELSE ToDouble(cell)

\* the table "create table new_physical as select ..." creates
CleanSnapshot(snap, action, fields, filters) ==
    LET names == ListColumns(snap)
        sel(c) == c \in Range(fields)
        fill(c) == IF action = "fill-mean" THEN Avg(ColumnValues(snap, c))
                   ELSE Median(ColumnValues(snap, c))
        filling == action \in {"fill-mean", "fill-median"}
    IN IF action = "drop-missing"
       THEN [cols |-> snap.cols,
             rows |-> SelectSeq(snap.rows,
                        LAMBDA row : \A k \in DOMAIN fields :
                                        ~IsNull(row[ColIdx(snap, fields[k])]))]
       ELSE [cols |-> [k \in DOMAIN names |->
                         IF filling /\ sel(names[k]) /\ ~IsNull(fill(names[k]))
                         THEN Col(names[k], "DOUBLE") ELSE snap.cols[k]],
             rows |-> [r \in DOMAIN snap.rows |->
                         [k \in DOMAIN names |->
                            IF sel(names[k])
                            THEN CleanCell(snap, action, filters, names[k],
                                           snap.rows[r],
                                           IF filling THEN fill(names[k])
                                           ELSE Null)
                            ELSE snap.rows[r][k]]]]

\* the checks of clean_table that raise ValueError, in the order of the code
CleanRejects(snap, action, fields, filters) ==
    LET names == Range(ListColumns(snap))
        scoped == filters # <<>>
        touched == {c \in names : c \in Range(fields)}
    IN \/ \E k \in DOMAIN fields : fields[k] \notin names
       \/ \E k \in DOMAIN filters : filters[k].field \notin names
       \/ \E k \in DOMAIN filters : filters[k].op \notin CleanFilterOps
       \/ action = "drop-missing" /\ scoped
       \/ /\ action \in {"fill-mean", "fill-median"}
          /\ touched # {}
          /\ (scoped \/ \E c \in touched : ColType(snap, c) \notin NumericTypes)
       \/ /\ action \notin {"drop-missing", "trim", "lowercase",
                            "standardize-missing", "fill-mean", "fill-median"}
          /\ touched # {}

\* a log row that records the new version as the previous one
LogRowWithoutPrevious(id, table_id, created_at, prev_version_id, new_version_id) ==
    [id |-> id, type |-> "clean", table_id |-> table_id,
     created_at |-> created_at, undoable |-> TRUE,
     prev_version_id |-> new_version_id, new_version_id |-> new_version_id]

LogRow(id, table_id, created_at, prev_version_id, new_version_id) ==
    [id |-> id, type |-> "clean", table_id |-> table_id,
     created_at |-> created_at, undoable |-> TRUE,
     prev_version_id |-> prev_version_id, new_version_id |-> new_version_id]

\* catalog writes that leave the dirty flag as it was
CleanCommitNotDirty(table_id, new_ver, new_physical) ==
    LET prev_version_id ==
            (CHOOSE v \in ActiveOf(table_versions, table_id) : TRUE).id
        new_version_id == NewVersionId(table_id)
        op_id == new_id(pOp, Cardinality(operation_logs) + 1)
        inserted == table_versions \cup
            {VersionRow(new_version_id, table_id, new_ver, new_physical, FALSE)}
        activated == _set_active_version(inserted, table_id, new_version_id)
    IN /\ table_versions' =
            {IF v.id = new_version_id THEN [v EXCEPT !.op_log_id = op_id]
             ELSE v : v \in activated}
       /\ tables' = tables
       /\ clock' = clock + 1
       /\ operation_logs' = operation_logs \cup
            {LogRow(op_id, table_id, clock + 1, prev_version_id, new_version_id)}
       /\ result' = [status |-> "ok", call |-> "clean", operationId |-> op_id,
                     tableId |-> table_id]

\* the catalog writes of clean_table once the new snapshot exists
CleanCommit(table_id, new_ver, new_physical) ==
    LET prev_version_id ==
            (CHOOSE v \in ActiveOf(table_versions, table_id) : TRUE).id
        new_version_id == NewVersionId(table_id)
        op_id == new_id(pOp, Cardinality(operation_logs) + 1)
        inserted == table_versions \cup
            {VersionRow(new_version_id, table_id, new_ver, new_physical, FALSE)}
        activated == _set_active_version(inserted, table_id, new_version_id)
    IN /\ table_versions' =
            {IF v.id = new_version_id THEN [v EXCEPT !.op_log_id = op_id]
             ELSE v : v \in activated}
       /\ tables' = [tables EXCEPT ![table_id].dirty = TRUE]
       /\ clock' = clock + 1
       /\ operation_logs' = operation_logs \cup
            {LogRow(op_id, table_id, clock + 1, prev_version_id, new_version_id)}
       /\ result' = [status |-> "ok", call |-> "clean", operationId |-> op_id,
                     tableId |-> table_id]

clean_table(table_id, action, fields, filters) ==
    IF ~HasActive(table_id)
    THEN /\ result' = Raised("KeyError")
         /\ UNCHANGED <<versionVars, primary_keys, relation_edges, inferenceVars>>
    ELSE LET snap == ActiveSnapshot(table_id)
             new_ver == _next_version(table_id)
             new_physical == _physical_name(table_id, new_ver)
         IN IF CleanRejects(snap, action, fields, filters)
            THEN /\ result' = Raised("ValueError")
                 /\ UNCHANGED <<versionVars, primary_keys, relation_edges,
                                inferenceVars>>
            ELSE IF new_physical \in DOMAIN physical
            THEN \* "create table" on an existing name: the engine raises
                 /\ result' = Raised("Internal")
                 /\ UNCHANGED <<versionVars, primary_keys, relation_edges,
                                inferenceVars>>
            ELSE /\ physical' = Put(physical, new_physical,
                                    CleanSnapshot(snap, action, fields, filters))
                 /\ CleanCommit(table_id, new_ver, new_physical)
                 /\ UNCHANGED <<lineage_edges, primary_keys, relation_edges,
                                inferenceVars>>

\* undo_last_clean: "order by created_at desc limit 1" takes a row with the
\* greatest created_at among the undoable clean rows
\* a selection that ignores the undoable flag
UndoCandidatesAnyFlag(logs) == {e \in logs : e.type = "clean"}

UndoCandidates(logs) == {e \in logs : e.type = "clean" /\ e.undoable}

\* a selection "order by created_at asc limit 1"
OldestUndoable(logs) ==
    {e \in UndoCandidates(logs) :
        \A o \in UndoCandidates(logs) : e.created_at <= o.created_at}

\* a selection "limit 1" without an order
SomeUndoable(logs) == UndoCandidates(logs)

LastUndoable(logs) ==
    {e \in UndoCandidates(logs) :
        \A o \in UndoCandidates(logs) : o.created_at <= e.created_at}

undo_last_clean ==
    IF UndoCandidates(operation_logs) = {}
    THEN /\ result' = [status |-> "none"]
         /\ UNCHANGED <<versionVars, primary_keys, relation_edges, inferenceVars>>
    ELSE \E row \in LastUndoable(operation_logs) :
           IF row.prev_version_id = NoId
           THEN /\ result' = [status |-> "none"]
                /\ UNCHANGED <<versionVars, primary_keys, relation_edges,
                               inferenceVars>>
           ELSE /\ table_versions' = _set_active_version(
                       table_versions, row.table_id, row.prev_version_id)
                /\ operation_logs' =
                     {IF e.id = row.id THEN [e EXCEPT !.undoable = FALSE]
                      ELSE e : e \in operation_logs}
                /\ result' = [status |-> "ok", call |-> "undo",
                              undoneOperationId |-> row.id,
                              tableId |-> row.table_id]
                /\ UNCHANGED <<tables, physical, lineage_edges, clock,
                               primary_keys, relation_edges, inferenceVars>>

(***************************************************************************)
(* Column profiler.                                                        *)
(***************************************************************************)
\* _missing_predicate(col, duck_type) on a cell
_missing_predicate(v, duck_type) ==
    IF duck_type \in TextTypes
    THEN IsNull(v) \/ Trim(CastVarchar(v).s) = <<>>
    ELSE IF duck_type \in FloatTypes
    THEN IsNull(v) \/ v.t = "nan"
    ELSE IsNull(v)

\* _distinct_value_expr(col, duck_type) on a cell
_distinct_value_expr(v, duck_type) ==
    IF duck_type \in TextTypes
    THEN (IF IsNull(v) \/ Trim(CastVarchar(v).s) = <<>> THEN Null
          ELSE StrV(Trim(CastVarchar(v).s)))
    ELSE IF duck_type \in FloatTypes
    THEN (IF IsNull(v) \/ v.t = "nan" THEN Null ELSE v)
    ELSE v

\* the row refresh_column_profiles inserts for one column
ProfileRow(table_id, snap, c) ==
    LET ty == ColType(snap, c)
        vals == ColumnValues(snap, c)
        row_count == Len(snap.rows)
        missing_count ==
            Cardinality({r \in DOMAIN vals : _missing_predicate(vals[r], ty)})
        distinct_count ==
            Cardinality({_distinct_value_expr(vals[r], ty) : r \in DOMAIN vals}
                        \ {Null})
        is_unique ==
            row_count > 0 /\ missing_count = 0 /\ distinct_count = row_count
        nums == {vals[r].i : r \in DOMAIN vals}
        vmin == CHOOSE x \in nums : \A y \in nums : x <= y
        vmax == Max(nums)
        is_identity ==
            /\ is_unique
            /\ ty \in IntegerTypes
            /\ row_count > 0
            /\ vmin \in {0, 1}
            /\ vmax - vmin + 1 = row_count
    IN [table_id |-> table_id, column_name |-> c, row_count |-> row_count,
        missing_count |-> missing_count, distinct_count |-> distinct_count,
        is_unique |-> is_unique, is_identity |-> is_identity,
        inferred_nullable |-> missing_count > 0]

\* dw_meta.column_profiles after refresh_column_profiles(table_id) when the
\* table's active snapshot is snap: the table's rows are deleted, then one is
\* inserted per column
ProfilesRefreshed(profiles, table_id, snap) ==
    {p \in profiles : p.table_id # table_id}
      \cup {ProfileRow(table_id, snap, c) : c \in Range(ListColumns(snap))}

\* _load_column_profiles: column name -> profile row
_load_column_profiles(profiles, table_id) ==
    LET mine == {p \in profiles : p.table_id = table_id}
    IN [c \in {p.column_name : p \in mine} |->
          CHOOSE p \in mine : p.column_name = c]

refresh_column_profiles(table_id) ==
    IF ~HasActive(table_id)
    THEN /\ result' = Raised("KeyError")
         /\ UNCHANGED <<versionVars, primary_keys, relation_edges, inferenceVars>>
    ELSE /\ column_profiles' =
              ProfilesRefreshed(column_profiles, table_id,
                                ActiveSnapshot(table_id))
         /\ result' = Returned("refresh_column_profiles")
         /\ UNCHANGED <<versionVars, primary_keys, relation_edges,
                        primary_keys_inferred, relation_edges_inferred>>

\* what get_table_meta(table_id) writes: the profiles, when the table has none
MetaProfiles(profiles, table_id, snap) ==
    IF {p \in profiles : p.table_id = table_id} = {}
    THEN ProfilesRefreshed(profiles, table_id, snap)
    ELSE profiles

(***************************************************************************)
(* merge_tables.                                                           *)
(***************************************************************************)
cMerge == <<"_", "m", "e", "r", "g", "e">>
RightPrefix == <<"r", "i", "g", "h", "t", "_">>

HasDuplicates(names) ==
    \E i, j \in DOMAIN names : i < j /\ names[i] = names[j]

\* the output column names: the left ones, the right ones (renamed right_<c>
\* when c is a left column), and _merge
MergeColumns(l, r) ==
    LET left_cols == ListColumns(l)
        right_cols == ListColumns(r)
        renamed == [k \in DOMAIN right_cols |->
                      IF right_cols[k] \in Range(left_cols)
                      THEN Col(RightPrefix \o right_cols[k], r.cols[k].type)
                      ELSE r.cols[k]]
    IN l.cols \o renamed \o <<Col(cMerge, "INTEGER")>>

\* the join predicate on a pair of rows: every key pair equal and not NULL
JoinMatch(l, lrow, left_keys, r, rrow, right_keys) ==
    \A k \in DOMAIN left_keys :
       LET a == lrow[ColIdx(l, left_keys[k])]
           b == rrow[ColIdx(r, right_keys[k])]
       IN ~IsNull(a) /\ ~IsNull(b) /\ SqlEq(a, b)

RECURSIVE Flatten(_)
Flatten(ss) == IF ss = <<>> THEN <<>> ELSE Head(ss) \o Flatten(Tail(ss))

Nulls(n) == [k \in 1..n |-> Null]

\* a join whose left-only rows carry no tag
MergeRowsUntagged(l, r, left_keys, right_keys, how) ==
    LET M(i, j) == JoinMatch(l, l.rows[i], left_keys, r, r.rows[j], right_keys)
        both == Flatten([i \in DOMAIN l.rows |->
                   Flatten([j \in DOMAIN r.rows |->
                      IF M(i, j)
                      THEN << l.rows[i] \o r.rows[j] \o <<IntV(3)>> >>
                      ELSE <<>>])])
        left_only == Flatten([i \in DOMAIN l.rows |->
                   IF \E j \in DOMAIN r.rows : M(i, j) THEN <<>>
                   ELSE << l.rows[i] \o Nulls(Len(r.cols)) \o <<Null>> >>])
        right_only == Flatten([j \in DOMAIN r.rows |->
                   IF \E i \in DOMAIN l.rows : M(i, j) THEN <<>>
                   ELSE << Nulls(Len(l.cols)) \o r.rows[j] \o <<IntV(2)>> >>])
    IN both
         \o (IF how \in {"full", "left"} THEN left_only ELSE <<>>)
         \o (IF how \in {"full", "right"} THEN right_only ELSE <<>>)

\* the rows of the join, _merge last: 3 matched, 1 left only, 2 right only.
\* The engine leaves their order open; they are listed matched pairs first.
MergeRows(l, r, left_keys, right_keys, how) ==
    LET M(i, j) == JoinMatch(l, l.rows[i], left_keys, r, r.rows[j], right_keys)
        both == Flatten([i \in DOMAIN l.rows |->
                   Flatten([j \in DOMAIN r.rows |->
                      IF M(i, j)
                      THEN << l.rows[i] \o r.rows[j] \o <<IntV(3)>> >>
                      ELSE <<>>])])
        left_only == Flatten([i \in DOMAIN l.rows |->
                   IF \E j \in DOMAIN r.rows : M(i, j) THEN <<>>
                   ELSE << l.rows[i] \o Nulls(Len(r.cols)) \o <<IntV(1)>> >>])
        right_only == Flatten([j \in DOMAIN r.rows |->
                   IF \E i \in DOMAIN l.rows : M(i, j) THEN <<>>
                   ELSE << Nulls(Len(l.cols)) \o r.rows[j] \o <<IntV(2)>> >>])
    IN both
         \o (IF how \in {"full", "left"} THEN left_only ELSE <<>>)
         \o (IF how \in {"full", "right"} THEN right_only ELSE <<>>)

MergeSnapshot(l, r, left_keys, right_keys, how) ==
    [cols |-> MergeColumns(l, r),
     rows |-> MergeRows(l, r, left_keys, right_keys, how)]

\* the ValueError checks of merge_tables
MergeRejects(l, r, left_keys, right_keys) ==
    \/ \E k \in DOMAIN left_keys : left_keys[k] \notin Range(ListColumns(l))
    \/ \E k \in DOMAIN right_keys : right_keys[k] \notin Range(ListColumns(r))
    \/ Len(left_keys) # Len(right_keys)

\* what the engine refuses in the "create table ... as select": an empty
\* "on" clause, two output columns of one name
MergeEngineRejects(l, r, left_keys) ==
    \/ left_keys = <<>>
    \/ HasDuplicates([k \in DOMAIN MergeColumns(l, r) |->
                         MergeColumns(l, r)[k].name])

\* a row that names the first source as the derived table
LineageRowOfSource(id, derived_table_id, source_table_ids, operation) ==
    [id |-> id, derived_table_id |-> source_table_ids[1],
     source_table_ids |-> source_table_ids, operation |-> operation]

LineageRow(id, derived_table_id, source_table_ids, operation) ==
    [id |-> id, derived_table_id |-> derived_table_id,
     source_table_ids |-> source_table_ids, operation |-> operation]

MergeCount(snap, tag) ==
    Cardinality({k \in DOMAIN snap.rows : snap.rows[k][Len(snap.cols)] = IntV(tag)})

\* a derivation that also logs itself as an undoable step of its result table
DeriveCommitLogged(result_table_id, snap, sources, operation) ==
    LET result_physical == _physical_name(result_table_id, 1)
        ver_id == NewVersionId(result_table_id)
    IN /\ physical' = Put(physical, result_physical, snap)
       /\ tables' = Put(tables, result_table_id,
                        [source_type |-> "derived", dirty |-> FALSE])
       /\ table_versions' = table_versions \cup
            {VersionRow(ver_id, result_table_id, 1, result_physical, TRUE)}
       /\ lineage_edges' = lineage_edges \cup
            {LineageRow(new_id(pLin, Cardinality(lineage_edges) + 1),
                        result_table_id, sources, operation)}
       /\ column_profiles' = MetaProfiles(column_profiles, result_table_id, snap)
       /\ clock' = clock + 1
       /\ operation_logs' = operation_logs \cup
            {LogRow(new_id(pOp, Cardinality(operation_logs) + 1),
                    result_table_id, clock + 1, NoId, ver_id)}
       /\ UNCHANGED <<primary_keys, relation_edges, primary_keys_inferred,
                      relation_edges_inferred>>

\* the catalog writes shared by merge_tables and reshape_table: the derived
\* table at version 1, its lineage edge, and get_table_meta's profiles
DeriveCommit(result_table_id, snap, sources, operation) ==
    LET result_physical == _physical_name(result_table_id, 1)
    IN /\ physical' = Put(physical, result_physical, snap)
       /\ tables' = Put(tables, result_table_id,
                        [source_type |-> "derived", dirty |-> FALSE])
       /\ table_versions' = table_versions \cup
            {VersionRow(NewVersionId(result_table_id), result_table_id, 1,
                        result_physical, TRUE)}
       /\ lineage_edges' = lineage_edges \cup
            {LineageRow(new_id(pLin, Cardinality(lineage_edges) + 1),
                        result_table_id, sources, operation)}
       /\ column_profiles' = MetaProfiles(column_profiles, result_table_id, snap)
       /\ UNCHANGED <<operation_logs, clock, primary_keys, relation_edges,
                      primary_keys_inferred, relation_edges_inferred>>

merge_tables(left_id, right_id, left_keys, right_keys, how) ==
    IF ~HasActive(left_id) \/ ~HasActive(right_id)
    THEN /\ result' = Raised("KeyError")
         /\ UNCHANGED <<versionVars, primary_keys, relation_edges, inferenceVars>>
    ELSE LET l == ActiveSnapshot(left_id)
             r == ActiveSnapshot(right_id)
             snap == MergeSnapshot(l, r, left_keys, right_keys, how)
         IN IF MergeRejects(l, r, left_keys, right_keys)
            THEN /\ result' = Raised("ValueError")
                 /\ UNCHANGED <<versionVars, primary_keys, relation_edges,
                                inferenceVars>>
            ELSE IF MergeEngineRejects(l, r, left_keys)
            THEN /\ result' = Raised("Internal")
                 /\ UNCHANGED <<versionVars, primary_keys, relation_edges,
                                inferenceVars>>
            ELSE /\ DeriveCommit(NewTableId, snap, <<left_id, right_id>>, "merge")
                 /\ result' =
                      [status |-> "ok", call |-> "merge",
                       leftTable |-> left_id, rightTable |-> right_id,
                       resultTable |-> NewTableId, joinType |-> how,
                       rowsAfter |-> Len(snap.rows),
                       matchedRows |-> MergeCount(snap, 3),
                       unmatchedLeft |-> MergeCount(snap, 1),
                       unmatchedRight |-> MergeCount(snap, 2)]

(***************************************************************************)
(* reshape_table.  polars' melt and pivot, on the columns they are given.  *)
(***************************************************************************)
cVariable == <<"v", "a", "r", "i", "a", "b", "l", "e">>
cValue == <<"v", "a", "l", "u", "e">>
tNull == <<"n", "u", "l", "l">>

\* the first occurrences of a sequence's elements, in order
Distinct(s) ==
    LET F[i \in 0..Len(s)] ==
          IF i = 0 THEN <<>>
          ELSE IF \A j \in 1..(i - 1) : s[j] # s[i]
               THEN F[i - 1] \o <<s[i]>> ELSE F[i - 1]
    IN F[Len(s)]

\* melt: one output row per (value column, input row); without value_vars
\* every column that is no id column is a value column; the value column takes
\* the common type, text when the types differ
MeltSnapshot(snap, id_vars, value_vars) ==
    LET names == ListColumns(snap)
        vvars == IF value_vars # <<>> THEN value_vars
                 ELSE SelectSeq(names, LAMBDA c : c \notin Range(id_vars))
        types == {ColType(snap, vvars[k]) : k \in DOMAIN vvars}
        vtype == IF Cardinality(types) = 1 THEN CHOOSE ty \in types : TRUE
                 ELSE "VARCHAR"
        cell(row, c) == IF Cardinality(types) = 1 THEN row[ColIdx(snap, c)]
                        ELSE CastVarchar(row[ColIdx(snap, c)])
    IN [cols |-> [k \in DOMAIN id_vars |-> snap.cols[ColIdx(snap, id_vars[k])]]
                   \o <<Col(cVariable, "VARCHAR"), Col(cValue, vtype)>>,
        rows |-> Flatten([k \in DOMAIN vvars |->
                   [r \in DOMAIN snap.rows |->
                      [j \in DOMAIN id_vars |->
                          snap.rows[r][ColIdx(snap, id_vars[j])]]
                        \o <<StrV(vvars[k]), cell(snap.rows[r], vvars[k])>>]])]

\* the column name pivot makes of a cell of the pivot column
PivotName(v) == IF IsNull(v) THEN tNull ELSE CastVarchar(v).s

\* pivot: one output row per distinct index tuple, one column per distinct
\* value of the pivot column, each cell the first value of its group
PivotSnapshot(snap, id_vars, pivot_columns, pivot_values) ==
    LET key(row) == [j \in DOMAIN id_vars |-> row[ColIdx(snap, id_vars[j])]]
        keys == Distinct([r \in DOMAIN snap.rows |-> key(snap.rows[r])])
        heads == Distinct(ColumnValues(snap, pivot_columns))
        group(kk, h) == SelectSeq(snap.rows, LAMBDA row :
                           key(row) = kk /\ row[ColIdx(snap, pivot_columns)] = h)
        first(kk, h) == IF group(kk, h) = <<>> THEN Null
                        ELSE group(kk, h)[1][ColIdx(snap, pivot_values)]
    IN [cols |-> [k \in DOMAIN id_vars |-> snap.cols[ColIdx(snap, id_vars[k])]]
                   \o [k \in DOMAIN heads |->
                         Col(PivotName(heads[k]), ColType(snap, pivot_values))],
        rows |-> [i \in DOMAIN keys |->
                    keys[i] \o [k \in DOMAIN heads |-> first(keys[i], heads[k])]]]

NoColumn == <<>>      \* pivotColumns / pivotValues left out of the payload

\* what polars refuses: a column the frame does not have, an output frame
\* with two columns of one name
ReshapeEngineRejects(snap, direction, id_vars, value_vars, pivot_columns, pivot_values) ==
    LET names == Range(ListColumns(snap))
    IN IF direction = "wide-to-long"
       THEN \/ ~(Range(id_vars) \cup Range(value_vars) \subseteq names)
            \/ HasDuplicates(ListColumns(MeltSnapshot(snap, id_vars, value_vars)))
       ELSE \/ ~(Range(id_vars) \cup {pivot_columns, pivot_values} \subseteq names)
            \/ HasDuplicates(ListColumns(
                  PivotSnapshot(snap, id_vars, pivot_columns, pivot_values)))

reshape_table(table_id, direction, id_vars, value_vars, pivot_columns, pivot_values) ==
    IF ~HasActive(table_id)
    THEN /\ result' = Raised("KeyError")
         /\ UNCHANGED <<versionVars, primary_keys, relation_edges, inferenceVars>>
    ELSE LET src == ActiveSnapshot(table_id)
             out == IF direction = "wide-to-long"
                    THEN MeltSnapshot(src, id_vars, value_vars)
                    ELSE PivotSnapshot(src, id_vars, pivot_columns, pivot_values)
         IN IF /\ direction # "wide-to-long"
               /\ (pivot_columns = NoColumn \/ pivot_values = NoColumn)
            THEN /\ result' = Raised("ValueError")
                 /\ UNCHANGED <<versionVars, primary_keys, relation_edges,
                                inferenceVars>>
            ELSE IF ReshapeEngineRejects(src, direction, id_vars, value_vars,
                                         pivot_columns, pivot_values)
            THEN /\ result' = Raised("Internal")
                 /\ UNCHANGED <<versionVars, primary_keys, relation_edges,
                                inferenceVars>>
            ELSE /\ DeriveCommit(NewTableId, out, <<table_id>>, "reshape")
                 /\ result' = [status |-> "ok", call |-> "reshape",
                               sourceTable |-> table_id,
                               resultTable |-> NewTableId,
                               rowsBefore |-> Len(src.rows),
                               rowsAfter |-> Len(out.rows)]

(***************************************************************************)
(* JSON texts of field lists (json.dumps / json.loads), and the order of   *)
(* texts that sorted() uses.                                               *)
(***************************************************************************)
\* the items "f" of a non-empty list of texts, joined by ", "
RECURSIVE JoinQuoted(_)
JoinQuoted(fields) ==
    IF Len(fields) = 1 THEN <<"\"">> \o fields[1] \o <<"\"">>
    ELSE <<"\"">> \o Head(fields) \o <<"\"", ",", " ">>
           \o JoinQuoted(Tail(fields))

\* _json_dumps of a list of texts (no text of the model needs an escape)
_json_dumps(fields) ==
    <<"[">> \o (IF fields = <<>> THEN <<>> ELSE JoinQuoted(fields)) \o <<"]">>

\* the items of the text between the brackets of a JSON list of texts
RECURSIVE ParseItems(_)
ParseItems(s) ==
    IF s = <<>> THEN <<>>
    ELSE LET close == CHOOSE k \in 2..Len(s) :
                         s[k] = "\"" /\ \A j \in 2..(k - 1) : s[j] # "\""
             rest == SubSeq(s, close + 1, Len(s))
         IN <<SubSeq(s, 2, close - 1)>>
              \o (IF rest = <<>> THEN <<>>
                  ELSE ParseItems(SubSeq(rest, 3, Len(rest))))

\* json.loads of such a text
json_loads(text) == ParseItems(SubSeq(text, 2, Len(text) - 1))

\* the characters of the model's names in code point order
CodePoints ==
    DigitChars \o
    <<"A", "B", "N", "_", "a", "b", "c", "d", "e", "f", "g", "h", "i", "j",
      "k", "l", "m", "n", "o", "p", "q", "r", "s", "t", "u", "v", "w", "x",
      "y", "z">>

Ord(ch) == CHOOSE k \in DOMAIN CodePoints : CodePoints[k] = ch

\* a < b as Python compares str
RECURSIVE TextLess(_, _)
TextLess(a, b) ==
    IF b = <<>> THEN FALSE
    ELSE IF a = <<>> THEN TRUE
    ELSE IF Head(a) = Head(b) THEN TextLess(Tail(a), Tail(b))
    ELSE Ord(Head(a)) < Ord(Head(b))

EndsWith(s, suffix) ==
    /\ Len(s) >= Len(suffix)
    /\ SubSeq(s, Len(s) - Len(suffix) + 1, Len(s)) = suffix

(***************************************************************************)
(* Primary keys: explicit (set_primary_key) and inferred.                  *)
(***************************************************************************)
\* a set_primary_key that stores the row before it looks at the fields
StoreThenCheckPrimaryKey(table_id, fields) ==
    IF ~HasActive(table_id)
    THEN /\ result' = Raised("KeyError")
         /\ UNCHANGED <<versionVars, primary_keys, relation_edges, inferenceVars>>
    ELSE /\ primary_keys' = Put(primary_keys, table_id, _json_dumps(fields))
         /\ result' =
              IF \E k \in DOMAIN fields :
                    fields[k] \notin Range(ListColumns(ActiveSnapshot(table_id)))
              THEN Raised("ValueError")
              ELSE [status |-> "ok", call |-> "set_primary_key",
                    tableId |-> table_id]
         /\ UNCHANGED <<versionVars, relation_edges, inferenceVars>>

set_primary_key(table_id, fields) ==
    IF ~HasActive(table_id)
    THEN /\ result' = Raised("KeyError")
         /\ UNCHANGED <<versionVars, primary_keys, relation_edges, inferenceVars>>
    ELSE IF \E k \in DOMAIN fields :
               fields[k] \notin Range(ListColumns(ActiveSnapshot(table_id)))
    THEN /\ result' = Raised("ValueError")
         /\ UNCHANGED <<versionVars, primary_keys, relation_edges, inferenceVars>>
    ELSE /\ primary_keys' = Put(primary_keys, table_id, _json_dumps(fields))
         /\ result' = [status |-> "ok", call |-> "set_primary_key",
                       tableId |-> table_id]
         /\ UNCHANGED <<versionVars, relation_edges, inferenceVars>>

\* _load_primary_key_fields: the explicit fields, else the inferred ones,
\* else None (found = FALSE)
_load_primary_key_fields(pks, pki, table_id) ==
    IF table_id \in DOMAIN pks
    THEN [found |-> TRUE, fields |-> json_loads(pks[table_id])]
    ELSE IF table_id \in DOMAIN pki
    THEN [found |-> TRUE, fields |-> json_loads(pki[table_id])]
    ELSE [found |-> FALSE, fields |-> <<>>]

\* the columns a stored profile shows to be unique and never missing
UniqueColumns(profiles, table_id) ==
    LET prof == _load_column_profiles(profiles, table_id)
    IN {c \in DOMAIN prof :
          /\ prof[c].row_count > 0
          /\ prof[c].is_unique
          /\ ~prof[c].inferred_nullable}

\* rank(name) of refresh_inferred_primary_key, and the order of its tuples
rank(name) ==
    LET n == Lower(name)
    IN [tier |-> IF n = <<"i", "d">> THEN 0
                 ELSE IF EndsWith(n, <<"_", "i", "d">>) THEN 1
                 ELSE 2,
        name |-> n]

\* a ranking by name alone
RankByName(a, b) == TextLess(a.name, b.name)

RankLess(a, b) ==
    \/ a.tier < b.tier
    \/ a.tier = b.tier /\ TextLess(a.name, b.name)

\* dw_meta.primary_keys_inferred after refresh_inferred_primary_key(table_id):
\* untouched when the table has an explicit key, the table's row deleted
\* when no column qualifies, else the best-ranked column upserted.  (Two
\* columns of one table never rank equal: the engine's column names are
\* unique whatever their case.)
PrimaryKeyInferred(pks, pki, profiles, table_id) ==
    IF table_id \in DOMAIN pks THEN pki
    ELSE LET candidates == UniqueColumns(profiles, table_id)
             best == CHOOSE c \in candidates :
                        \A o \in candidates : ~RankLess(rank(o), rank(c))
         IN IF candidates = {} THEN Drop(pki, table_id)
            ELSE Put(pki, table_id, _json_dumps(<<best>>))

\* what refresh_inferred_primary_key returns: None, or the list it stored
PrimaryKeyReturned(pks, profiles, table_id) ==
    LET stored == PrimaryKeyInferred(pks, <<>>, profiles, table_id)
    IN IF table_id \in DOMAIN stored
       THEN [found |-> TRUE, fields |-> json_loads(stored[table_id])]
       ELSE [found |-> FALSE, fields |-> <<>>]

refresh_inferred_primary_key(table_id) ==
    /\ primary_keys_inferred' =
         PrimaryKeyInferred(primary_keys, primary_keys_inferred,
                            column_profiles, table_id)
    /\ result' = [status |-> "ok", call |-> "refresh_inferred_primary_key",
                  tableId |-> table_id,
                  returned |-> PrimaryKeyReturned(primary_keys, column_profiles,
                                                  table_id)]
    /\ UNCHANGED <<versionVars, primary_keys, relation_edges, column_profiles,
                   relation_edges_inferred>>

(***************************************************************************)
(* query_rows.  The value of a filter is what the JSON body held: nothing  *)
(* (None), a scalar, or a list.  The requests compare a column with values *)
(* of its own type, so the engine raises no conversion error.              *)
(***************************************************************************)
NoValue == [kind |-> "none", v |-> Null, items |-> <<>>]
Scalar(v) == [kind |-> "scalar", v |-> v, items |-> <<>>]
List(items) == [kind |-> "list", v |-> Null, items |-> items]

\* Python truth of a value: None, 0, "" and [] are false
Truthy(value) ==
    CASE value.kind = "none" -> FALSE
      [] value.kind = "list" -> value.items # <<>>
      [] OTHER -> ~(\/ IsNull(value.v)
                    \/ (IsNumber(value.v) /\ value.v.i = 0)
                    \/ (value.v.t = "str" /\ value.v.s = <<>>))

\* f.get("value") or []
ValueOrEmpty(value) == IF Truthy(value) THEN value ELSE List(<<>>)

\* the parameter bound for f.get("value"): None binds NULL
Param(value) == IF value.kind = "scalar" THEN value.v ELSE Null

QueryCompareOps == {"eq", "neq", "lt", "lte", "gt", "gte"}

\* a < b in the engine: numbers by value, texts by their characters
SqlLess(a, b) ==
    IF IsNumber(a) /\ IsNumber(b) THEN NumLess(a, b)
    ELSE a.t = "str" /\ b.t = "str" /\ TextLess(a.s, b.s)

Compare(op, a, b) ==
    /\ ~IsNull(a) /\ ~IsNull(b)
    /\ CASE op = "eq" -> SqlEq(a, b)
         [] op = "neq" -> ~SqlEq(a, b)
         [] op = "lt" -> SqlLess(a, b)
         [] op = "lte" -> SqlLess(a, b) \/ SqlEq(a, b)
         [] op = "gt" -> SqlLess(b, a)
         [] op = "gte" -> SqlLess(b, a) \/ SqlEq(a, b)
         [] OTHER -> FALSE

\* the checks of query_rows on one filter that raise ValueError
QueryFilterRejects(names, f) ==
    \/ f.field \notin names
    \/ /\ f.op = "between"
       /\ ~(ValueOrEmpty(f.value).kind = "list"
            /\ Len(ValueOrEmpty(f.value).items) = 2)
    \/ f.op \notin QueryCompareOps
                     \cup {"isnull", "notnull", "contains", "in", "between"}

\* the checks of query_rows on one sort entry that raise ValueError
QuerySortRejects(names, st) ==
    \/ st.field \notin names
    \/ st.direction \notin {"asc", "desc"}

QueryRejects(snap, filters, sort) ==
    \/ \E k \in DOMAIN filters :
          QueryFilterRejects(Range(ListColumns(snap)), filters[k])
    \/ \E k \in DOMAIN sort :
          QuerySortRejects(Range(ListColumns(snap)), sort[k])

\* one predicate of the where clause is TRUE on the row
QueryFilterTrue(snap, row, f) ==
    LET cell == row[ColIdx(snap, f.field)]
        values == ValueOrEmpty(f.value)
    IN CASE f.op = "isnull" -> IsNull(cell)
         [] f.op = "notnull" -> ~IsNull(cell)
         [] f.op = "contains" ->
               /\ cell.t = "str" /\ f.value.kind = "scalar"
               /\ Contains(Lower(cell.s), Lower(f.value.v.s))
         [] f.op = "in" ->
               /\ values.kind = "list" /\ values.items # <<>>
               /\ \E k \in DOMAIN values.items :
                     Compare("eq", cell, values.items[k])
         [] f.op = "between" ->
               /\ Compare("gte", cell, values.items[1])
               /\ Compare("lte", cell, values.items[2])
         [] OTHER -> Compare(f.op, cell, Param(f.value))

\* row a comes before row b under "order by": the first sort entry on which
\* they differ decides; NULL is last in either direction
RECURSIVE OrderedBefore(_, _, _, _)
OrderedBefore(snap, sort, a, b) ==
    IF sort = <<>> THEN FALSE
    ELSE LET x == a[ColIdx(snap, Head(sort).field)]
             y == b[ColIdx(snap, Head(sort).field)]
             asc == Head(sort).direction = "asc"
         IN IF IsNull(x) /\ IsNull(y)
            THEN OrderedBefore(snap, Tail(sort), a, b)
            ELSE IF IsNull(x) THEN FALSE
            ELSE IF IsNull(y) THEN TRUE
            ELSE IF SqlEq(x, y) THEN OrderedBefore(snap, Tail(sort), a, b)
            ELSE IF asc THEN SqlLess(x, y) ELSE SqlLess(y, x)

\* the orders in which the engine may return the matching rows: any order
\* without a sort, else any order that puts no row after a row it precedes
QueryOrders(snap, matching, sort) ==
    LET n == Len(matching)
    IN {p \in [1..n -> 1..n] :
          /\ \A i, j \in 1..n : p[i] = p[j] => i = j
          /\ \A i, j \in 1..n :
                i < j => ~OrderedBefore(snap, sort, matching[p[j]],
                                        matching[p[i]])
          /\ sort = <<>> => \A i \in 1..n : p[i] = i}

\* "limit ? offset ?"
Page(rows, offset, limit) ==
    SubSeq(rows, offset + 1,
           IF offset + limit < Len(rows) THEN offset + limit ELSE Len(rows))

query_rows(table_id, offset, limit, filters, sort) ==
    /\ UNCHANGED <<versionVars, primary_keys, relation_edges, inferenceVars>>
    /\ IF ~HasActive(table_id)
       THEN result' = [status |-> "KeyError", call |-> "query_rows",
                       tableId |-> table_id, filters |-> filters,
                       sort |-> sort]
       ELSE IF QueryRejects(ActiveSnapshot(table_id), filters, sort)
       THEN result' = [status |-> "ValueError", call |-> "query_rows",
                       tableId |-> table_id, filters |-> filters,
                       sort |-> sort]
       ELSE LET snap == ActiveSnapshot(table_id)
                matching ==
                   SelectSeq(snap.rows, LAMBDA row :
                      \A k \in DOMAIN filters :
                         QueryFilterTrue(snap, row, filters[k]))
            IN \E p \in QueryOrders(snap, matching, sort) :
                  result' =
                    [status |-> "ok", call |-> "query_rows",
                     tableId |-> table_id, filters |-> filters,
                     sort |-> sort,
                     rows |-> Page([i \in 1..Len(matching) |-> matching[p[i]]],
                                   offset, limit),
                     totalRows |-> Len(matching)]

(***************************************************************************)
(* get_table_meta: the table's fields as the profiles and the keys show    *)
(* them.  The foreign-key flags of a field (isForeignKey, refTable,        *)
(* refField) and its type are not modelled.                                *)
(***************************************************************************)
\* pk_fields: the explicit fields, the inferred ones when there is no
\* explicit row or its list is empty
MetaPkFields(pks, pki, table_id) ==
    LET explicit == IF table_id \in DOMAIN pks
                    THEN Range(json_loads(pks[table_id])) ELSE {}
    IN IF explicit # {} THEN explicit
       ELSE IF table_id \in DOMAIN pki THEN Range(json_loads(pki[table_id]))
       ELSE {}

\* the FieldOut of a column; a column without a profile row counts its NULLs
\* and takes the engine's nullability (TRUE for a table made by "create
\* table as")
FieldOut(snap, prof, pk_fields, c) ==
    [name |-> c,
     isPrimaryKey |-> c \in pk_fields,
     nullable |-> IF c \in DOMAIN prof THEN prof[c].inferred_nullable ELSE TRUE,
     isUnique |-> c \in DOMAIN prof /\ prof[c].is_unique,
     isIdentity |-> c \in DOMAIN prof /\ prof[c].is_identity,
     missingCount |->
        IF c \in DOMAIN prof THEN prof[c].missing_count
        ELSE Cardinality({r \in DOMAIN snap.rows :
                            IsNull(snap.rows[r][ColIdx(snap, c)])})]

get_table_meta(table_id) ==
    IF table_id \notin DOMAIN tables \/ ~HasActive(table_id)
    THEN /\ result' = [status |-> "KeyError", call |-> "get_table_meta",
                       id |-> table_id]
         /\ UNCHANGED <<versionVars, primary_keys, relation_edges, inferenceVars>>
    ELSE LET snap == ActiveSnapshot(table_id)
             profiles == MetaProfiles(column_profiles, table_id, snap)
             prof == _load_column_profiles(profiles, table_id)
             pk_fields == MetaPkFields(primary_keys, primary_keys_inferred,
                                       table_id)
             names == ListColumns(snap)
         IN /\ column_profiles' = profiles
            /\ result' =
                 [status |-> "ok", call |-> "get_table_meta",
                  id |-> table_id,
                  fields |-> [k \in DOMAIN names |->
                                FieldOut(snap, prof, pk_fields, names[k])],
                  rowCount |-> IF DOMAIN prof # {}
                               THEN (CHOOSE p \in Range(prof) : TRUE).row_count
                               ELSE Len(snap.rows),
                  sourceType |-> tables[table_id].source_type,
                  dirty |-> tables[table_id].dirty]
            /\ UNCHANGED <<versionVars, primary_keys, relation_edges,
                           primary_keys_inferred, relation_edges_inferred>>

(***************************************************************************)
(* Relations: explicit (create_relation), inferred, and their listing.     *)
(* The created_at column of the two relation stores is not modelled: it    *)
(* only orders the listing, which is modelled as a set.                    *)
(***************************************************************************)
RelationPayload(fkTableId, fkFields, pkTableId, pkFields, cardinality) ==
    [fkTableId |-> fkTableId, fkFields |-> fkFields, pkTableId |-> pkTableId,
     pkFields |-> pkFields, cardinality |-> cardinality]

\* create_relation: a plain insert under a fresh id, nothing is validated
create_relation(payload) ==
    LET rid == new_id(pRel, Cardinality(relation_edges) + 1)
    IN /\ relation_edges' = relation_edges \cup
            {[id |-> rid,
              fk_table_id |-> payload.fkTableId,
              fk_fields_json |-> _json_dumps(payload.fkFields),
              pk_table_id |-> payload.pkTableId,
              pk_fields_json |-> _json_dumps(payload.pkFields),
              cardinality |-> payload.cardinality]}
       /\ result' = [status |-> "ok", call |-> "create_relation", id |-> rid,
                     fkTableId |-> payload.fkTableId,
                     pkTableId |-> payload.pkTableId]
       /\ UNCHANGED <<versionVars, primary_keys, inferenceVars>>

pRelInf == <<"r", "e", "l", "-", "i", "n", "f", "-">>

\* an id drawn from the size of the store instead of the key
UnstableRelationId(fk_table_id, fk_fields, pk_table_id, pk_fields) ==
    pRelInf \o Str(Cardinality(relation_edges_inferred)) \o <<"|">>
      \o fk_table_id \o <<"|">> \o pk_table_id

\* _stable_relation_id: "rel-inf-" and the sha1 of the key text; sha1 is
\* taken to be injective, the key text stands for its digest
_stable_relation_id(fk_table_id, fk_fields, pk_table_id, pk_fields) ==
    pRelInf \o fk_table_id \o <<"|">> \o _json_dumps(fk_fields) \o <<"|">>
      \o pk_table_id \o <<"|">> \o _json_dumps(pk_fields)

\* _normalized_key_expr on a cell: nullif(trim(cast(c as varchar)), '')
_normalized_key_expr(v) ==
    IF IsNull(v) THEN Null
    ELSE LET s == Trim(CastVarchar(v).s)
         IN IF s = <<>> THEN Null ELSE StrV(s)

\* the coverage query on the key columns: total counts the fk rows with a
\* key, matched those of them whose key is one of the distinct pk keys
CoverageOf(fk_keys, pk_keys) ==
    [matched |-> Cardinality({r \in DOMAIN fk_keys : fk_keys[r] \in pk_keys}),
     total |-> Cardinality({r \in DOMAIN fk_keys : fk_keys[r] # Null})]

\* the normalised keys of a column, in row order
KeyColumn(snap, col) ==
    LET vals == ColumnValues(snap, col)
    IN [r \in DOMAIN vals |-> _normalized_key_expr(vals[r])]

CoverageRow(fk_snap, pk_snap, shared_col) ==
    CoverageOf(KeyColumn(fk_snap, shared_col),
               Range(KeyColumn(pk_snap, shared_col)) \ {Null})

\* a selection that takes the derived tables too
InferenceTablesAll == DOMAIN tables

\* the tables relation inference looks at
InferenceTables == {t \in DOMAIN tables : tables[t].source_type # "derived"}

\* the first loop of refresh_inferred_relations: per table, profiles computed
\* when the table has none, then its inferred key refreshed
RECURSIVE EnsureCurrent(_, _, _)
\* the rest of the loop, tid's profiles being in place
EnsureStep(p1, pki, tid, table_ids) ==
    EnsureCurrent(p1, PrimaryKeyInferred(primary_keys, pki, p1, tid),
                  table_ids \ {tid})

EnsureCurrent(profiles, pki, table_ids) ==
    IF table_ids = {} THEN [profiles |-> profiles, pki |-> pki]
    ELSE EnsureStep(MetaProfiles(profiles, CHOOSE t \in table_ids : TRUE,
                                 ActiveSnapshot(CHOOSE t \in table_ids : TRUE)),
                    pki, CHOOSE t \in table_ids : TRUE, table_ids)

\* pk_candidates[tid]: the effective key when it is one column, else the
\* unique columns
PkCandidates(profiles, pki, tid) ==
    LET f == _load_primary_key_fields(primary_keys, pki, tid)
    IN IF f.found /\ Len(f.fields) = 1 THEN {f.fields[1]}
       ELSE UniqueColumns(profiles, tid)

\* the row inserted for a pair of tables and a shared column
InferredEdge(fk_tid, pk_tid, shared_col, fk_prof, cov) ==
    [id |-> _stable_relation_id(fk_tid, <<shared_col>>, pk_tid, <<shared_col>>),
     fk_table_id |-> fk_tid,
     fk_fields_json |-> _json_dumps(<<shared_col>>),
     pk_table_id |-> pk_tid,
     pk_fields_json |-> _json_dumps(<<shared_col>>),
     cardinality |-> IF fk_prof.is_unique /\ ~fk_prof.inferred_nullable
                     THEN "1:1" ELSE "m:1",
     coverage |-> DblV(cov.matched, cov.total)]

\* coverage tests that let every measured coverage through
CoverageMeasured(cov, coverage_threshold) == cov.total # 0

\* the "continue" tests on the coverage of a shared column
CoverageKept(cov, coverage_threshold) ==
    /\ cov.total # 0
    /\ ~(cov.matched * coverage_threshold.d < coverage_threshold.i * cov.total)

\* the rows inserted for a pair of tables: one per shared column whose fk
\* profile exists with a distinct value and whose coverage is kept
PairEdges(fk_tid, pk_tid, fk_snap, pk_snap, fk_profiles, pk_cols, coverage_threshold) ==
    {InferredEdge(fk_tid, pk_tid, m.col, fk_profiles[m.col], m.cov) :
       m \in {x \in {[col |-> c, cov |-> CoverageRow(fk_snap, pk_snap, c)] :
                       c \in {s \in Range(ListColumns(fk_snap)) \cap pk_cols :
                               /\ s \in DOMAIN fk_profiles
                               /\ fk_profiles[s].distinct_count # 0}} :
                CoverageKept(x.cov, coverage_threshold)}}

\* the rows the second loop inserts into the emptied inferred store
InferredEdges(profiles, pki, coverage_threshold) ==
    UNION {PairEdges(p[1], p[2], ActiveSnapshot(p[1]), ActiveSnapshot(p[2]),
                     _load_column_profiles(profiles, p[1]),
                     PkCandidates(profiles, pki, p[2]), coverage_threshold) :
             p \in {q \in InferenceTables \X InferenceTables : q[1] # q[2]}}

\* the inference stores once the second loop has run on the current
\* profiles and inferred keys
WithEdges(cur, coverage_threshold) ==
    [profiles |-> cur.profiles, pki |-> cur.pki,
     edges |-> InferredEdges(cur.profiles, cur.pki, coverage_threshold)]

\* the three inference stores after refresh_inferred_relations on the given
\* profiles and inferred keys (every table has an active version, so
\* _active_physical_name does not raise)
RelationsInferred(profiles, pki, edges, coverage_threshold) ==
    IF InferenceTables = {}
    THEN [profiles |-> profiles, pki |-> pki, edges |-> edges]
    ELSE WithEdges(EnsureCurrent(profiles, pki, InferenceTables),
                   coverage_threshold)

\* the writes of an inference pass
StoreInference(after, returned) ==
    /\ column_profiles' = after.profiles
    /\ primary_keys_inferred' = after.pki
    /\ relation_edges_inferred' = after.edges
    /\ result' = returned
    /\ UNCHANGED <<versionVars, primary_keys, relation_edges>>

refresh_inferred_relations(coverage_threshold) ==
    StoreInference(
        RelationsInferred(column_profiles, primary_keys_inferred,
                          relation_edges_inferred, coverage_threshold),
        [status |-> "ok", call |-> "refresh_inferred_relations",
         threshold |-> coverage_threshold])

DefaultThreshold == DblV(9, 10)

\* the loop of refresh_inference: per table, profiles recomputed, then the
\* inferred key refreshed
RECURSIVE RefreshAll(_, _, _)
\* the rest of the loop, tid's profiles being recomputed
RefreshStep(p1, pki, tid, table_ids) ==
    RefreshAll(p1, PrimaryKeyInferred(primary_keys, pki, p1, tid),
               table_ids \ {tid})

RefreshAll(profiles, pki, table_ids) ==
    IF table_ids = {} THEN [profiles |-> profiles, pki |-> pki]
    ELSE RefreshStep(ProfilesRefreshed(profiles, CHOOSE t \in table_ids : TRUE,
                                       ActiveSnapshot(CHOOSE t \in table_ids : TRUE)),
                     pki, CHOOSE t \in table_ids : TRUE, table_ids)

\* refresh_inferred_relations, with the default threshold, on what the loop
\* of refresh_inference left
InferenceAfter(all) ==
    RelationsInferred(all.profiles, all.pki, relation_edges_inferred,
                      DefaultThreshold)

refresh_inference ==
    StoreInference(
        InferenceAfter(RefreshAll(column_profiles, primary_keys_inferred,
                                  DOMAIN tables)),
        Returned("refresh_inference"))

\* a listing that drops no inferred row
ListedWithoutSuppression(explicit_rows, inferred_rows) ==
    explicit_rows \cup inferred_rows

\* a listing that drops every inferred row once an explicit row exists
ListedExplicitOnly(explicit_rows, inferred_rows) ==
    IF explicit_rows = {} THEN inferred_rows ELSE explicit_rows

\* the rows list_relations keeps: the explicit ones, and the inferred ones
\* whose key is the key of no explicit row
ListedRows(explicit_rows, inferred_rows) ==
    LET explicit_keys ==
          {<<r.fk_table_id, r.fk_fields_json, r.pk_table_id, r.pk_fields_json>> :
             r \in explicit_rows}
    IN explicit_rows \cup
       {r \in inferred_rows :
          <<r.fk_table_id, r.fk_fields_json, r.pk_table_id, r.pk_fields_json>>
            \notin explicit_keys}

list_relations ==
    /\ result' =
         [status |-> "ok", call |-> "list_relations",
          relations |->
            {[id |-> r.id, fkTableId |-> r.fk_table_id,
              fkFields |-> json_loads(r.fk_fields_json),
              pkTableId |-> r.pk_table_id,
              pkFields |-> json_loads(r.pk_fields_json),
              cardinality |-> r.cardinality] :
               r \in ListedRows(relation_edges, relation_edges_inferred)}]
    /\ UNCHANGED <<versionVars, primary_keys, relation_edges, inferenceVars>>

(***************************************************************************)
(* relation_report and the exports.                                        *)
(***************************************************************************)
\* the row of a relation id: the explicit store first, then the inferred one
RelationRows(relation_id) ==
    IF {e \in relation_edges : e.id = relation_id} # {}
    THEN {e \in relation_edges : e.id = relation_id}
    ELSE {e \in relation_edges_inferred : e.id = relation_id}

\* what the engine refuses in the report's queries: a column that is not in
\* its table, an empty "on" clause
ReportEngineRejects(fk_snap, fk_fields, pk_snap, pk_fields) ==
    \/ fk_fields = <<>>
    \/ \E k \in DOMAIN fk_fields : fk_fields[k] \notin Range(ListColumns(fk_snap))
    \/ \E k \in DOMAIN pk_fields : pk_fields[k] \notin Range(ListColumns(pk_snap))

\* the rows of the left join of the fk rows without a NULL key to the pk
\* rows: the matched pairs, and all rows (a row without a match counts once)
ReportCoverage(fk_snap, fk_fields, pk_snap, pk_fields) ==
    LET nonnull == {i \in DOMAIN fk_snap.rows :
                      \A k \in DOMAIN fk_fields :
                         ~IsNull(fk_snap.rows[i][ColIdx(fk_snap, fk_fields[k])])}
        pairs == {q \in nonnull \X (DOMAIN pk_snap.rows) :
                    JoinMatch(fk_snap, fk_snap.rows[q[1]], fk_fields,
                              pk_snap, pk_snap.rows[q[2]], pk_fields)}
        alone == {i \in nonnull : \A q \in pairs : q[1] # i}
    IN [matched |-> Cardinality(pairs),
        total |-> Cardinality(pairs) + Cardinality(alone),
        missing |-> Len(fk_snap.rows) - Cardinality(nonnull)]

\* sum of c - 1 over the groups of the key expression: the rows beyond the
\* first of each key; a NULL counts as the empty text
DuplicateRows(snap, fields) ==
    LET key(row) == [k \in DOMAIN fields |->
                       IF IsNull(row[ColIdx(snap, fields[k])]) THEN <<>>
                       ELSE CastVarchar(row[ColIdx(snap, fields[k])]).s]
    IN Len(snap.rows) - Cardinality({key(snap.rows[i]) : i \in DOMAIN snap.rows})

ReportRaised(exc, relation_id) ==
    [status |-> exc, call |-> "relation_report", relationId |-> relation_id]

relation_report(relation_id) ==
    /\ UNCHANGED <<versionVars, primary_keys, relation_edges, inferenceVars>>
    /\ IF RelationRows(relation_id) = {}
       THEN result' = ReportRaised("KeyError", relation_id)
       ELSE LET row == CHOOSE e \in RelationRows(relation_id) : TRUE
                fk_fields == json_loads(row.fk_fields_json)
                pk_fields == json_loads(row.pk_fields_json)
            IN IF Len(fk_fields) # Len(pk_fields)
               THEN result' = ReportRaised("ValueError", relation_id)
               ELSE IF ~HasActive(row.fk_table_id) \/ ~HasActive(row.pk_table_id)
               THEN result' = ReportRaised("KeyError", relation_id)
               ELSE IF ReportEngineRejects(ActiveSnapshot(row.fk_table_id), fk_fields,
                                           ActiveSnapshot(row.pk_table_id), pk_fields)
               THEN result' = ReportRaised("Internal", relation_id)
               ELSE LET fk_snap == ActiveSnapshot(row.fk_table_id)
                        pk_snap == ActiveSnapshot(row.pk_table_id)
                        cov == ReportCoverage(fk_snap, fk_fields, pk_snap, pk_fields)
                    IN result' =
                         [status |-> "ok", call |-> "relation_report",
                          relationId |-> relation_id,
                          fkTableId |-> row.fk_table_id,
                          pkTableId |-> row.pk_table_id,
                          coverage |-> IF cov.total # 0
                                       THEN DblV(cov.matched, cov.total)
                                       ELSE DblV(0, 1),
                          fkMissing |-> cov.missing,
                          fkDuplicateRows |-> DuplicateRows(fk_snap, fk_fields),
                          pkDuplicateRows |-> DuplicateRows(pk_snap, pk_fields)]

\* export_table_csv: the active snapshot copied to a file.  The file is
\* outside the catalog; the result keeps the columns and the row count of
\* what was copied.
export_table_csv(table_id) ==
    /\ UNCHANGED <<versionVars, primary_keys, relation_edges, inferenceVars>>
    /\ IF ~HasActive(table_id)
       THEN result' = [status |-> "KeyError", call |-> "export_table_csv",
                       tableId |-> table_id]
       ELSE result' = [status |-> "ok", call |-> "export_table_csv",
                       tableId |-> table_id,
                       columns |-> ListColumns(ActiveSnapshot(table_id)),
                       rowCount |-> Len(ActiveSnapshot(table_id).rows)]

\* export_table_dta: the same lookup and select; the renaming of the columns
\* for the Stata file is not modelled
export_table_dta(table_id) ==
    /\ UNCHANGED <<versionVars, primary_keys, relation_edges, inferenceVars>>
    /\ IF ~HasActive(table_id)
       THEN result' = [status |-> "KeyError", call |-> "export_table_dta",
                       tableId |-> table_id]
       ELSE result' = [status |-> "ok", call |-> "export_table_dta",
                       tableId |-> table_id,
                       rowCount |-> Len(ActiveSnapshot(table_id).rows)]

(***************************************************************************)
(* The requests the model issues.                                          *)
(***************************************************************************)
UnknownTable == new_id(pTable, 0)      \* an id no import or derivation made
TableArgs == (DOMAIN tables) \cup {UnknownTable}

CleanReq(action, fields, filters) ==
    [action |-> action, fields |-> fields, filters |-> filters]

ScopeIdIs1 == <<Filter(cId, "eq", IntV(1))>>

\* every action once on a source it applies to, and every rejection
CleanRequests ==
    {CleanReq("trim", <<cN>>, <<>>),
     CleanReq("lowercase", <<cN>>, ScopeIdIs1),
     CleanReq("standardize-missing", <<cN>>, <<>>),
     CleanReq("drop-missing", <<cAId, cId>>, <<>>),
     CleanReq("fill-mean", <<cAId, cId>>, <<>>),
     CleanReq("fill-median", <<cAId, cId>>, <<>>),
     CleanReq("drop-missing", <<cId>>, ScopeIdIs1),
     CleanReq("fill-mean", <<cId>>, ScopeIdIs1),
     CleanReq("fill-median", <<cN>>, <<>>),
     CleanReq("trim", <<cZ>>, <<>>),
     CleanReq("trim", <<cId>>, <<Filter(cId, "gt", IntV(1))>>),
     CleanReq("dedupe", <<cId>>, <<>>)}

\* every request on every table, one request on an unknown table
CleanCalls ==
    ((DOMAIN tables) \X CleanRequests)
      \cup {<<UnknownTable, CleanReq("trim", <<cN>>, <<>>)>>}

Clean ==
    \E c \in CleanCalls :
       /\ Cardinality(operation_logs) < MaxCleans
       /\ clean_table(c[1], c[2].action, c[2].fields, c[2].filters)

Undo == undo_last_clean

MergeReq(left_keys, right_keys, how) ==
    [left_keys |-> left_keys, right_keys |-> right_keys, how |-> how]

MergeRequests ==
    {MergeReq(<<cId>>, <<cId>>, how) : how \in {"full", "inner"}}

MergeBadRequests ==
    {MergeReq(<<cId>>, <<cZ>>, "full"),
     MergeReq(<<cZ>>, <<cId>>, "full"),
     MergeReq(<<cId>>, <<>>, "full"),
     MergeReq(<<>>, <<>>, "full")}

\* every good request on every pair of tables, every bad request on a table
\* and itself, a good request with an unknown table on either side
MergeCalls ==
    ((DOMAIN tables) \X (DOMAIN tables) \X MergeRequests)
      \cup {<<t, t, rq>> : t \in DOMAIN tables, rq \in MergeBadRequests}
      \cup {<<UnknownTable, t, MergeReq(<<cId>>, <<cId>>, "full")>> :
               t \in TableArgs}
      \cup {<<t, UnknownTable, MergeReq(<<cId>>, <<cId>>, "full")>> :
               t \in DOMAIN tables}

Merge ==
    \E c \in MergeCalls :
       /\ Cardinality(TablesOfType("derived")) < MaxDerived
       /\ merge_tables(c[1], c[2], c[3].left_keys, c[3].right_keys, c[3].how)

ReshapeReq(direction, id_vars, value_vars, pivot_columns, pivot_values) ==
    [direction |-> direction, id_vars |-> id_vars, value_vars |-> value_vars,
     pivot_columns |-> pivot_columns, pivot_values |-> pivot_values]

ReshapeRequests ==
    {ReshapeReq("wide-to-long", <<cId>>, <<>>, NoColumn, NoColumn),
     ReshapeReq("wide-to-long", <<cId>>, <<cZ>>, NoColumn, NoColumn),
     ReshapeReq("long-to-wide", <<cAId>>, <<>>, cQ, cId),
     ReshapeReq("long-to-wide", <<cAId>>, <<>>, cQ, NoColumn)}

Reshape ==
    \E table_id \in TableArgs, rq \in ReshapeRequests :
       /\ Cardinality(TablesOfType("derived")) < MaxDerived
       /\ reshape_table(table_id, rq.direction, rq.id_vars, rq.value_vars,
                        rq.pivot_columns, rq.pivot_values)

Next == Import \/ Clean \/ Undo \/ Merge \/ Reshape

Spec == Init /\ [][Next]_vars

(***************************************************************************)
(* The requests of the inference specification.                            *)
(***************************************************************************)
\* a key of one column, a key on an unknown column
PrimaryKeyRequests == {<<cId>>, <<cZ>>}

SetPrimaryKey ==
    \E table_id \in TableArgs, fields \in PrimaryKeyRequests :
       /\ \/ Cardinality(DOMAIN primary_keys) < MaxPrimaryKeys
          \/ table_id \in DOMAIN primary_keys
       /\ set_primary_key(table_id, fields)

\* id to id between two tables of the catalog
RelationRequests ==
    {RelationPayload(p[1], <<cId>>, p[2], <<cId>>, "m:1") :
       p \in {q \in (DOMAIN tables) \X (DOMAIN tables) : q[1] # q[2]}}

CreateRelation ==
    \E payload \in RelationRequests :
       /\ Cardinality(relation_edges) < MaxRelations
       /\ create_relation(payload)

RefreshColumnProfiles == \E table_id \in TableArgs : refresh_column_profiles(table_id)

RefreshInferredPrimaryKey ==
    \E table_id \in TableArgs : refresh_inferred_primary_key(table_id)

Thresholds == {DefaultThreshold, DblV(6, 10)}

RefreshInferredRelations ==
    \E coverage_threshold \in Thresholds :
       refresh_inferred_relations(coverage_threshold)

RefreshInference == refresh_inference

ListRelations == list_relations

\* a clean that changes the rows the profiles and the coverage were
\* computed from: the rows without an id are dropped
CleanRows ==
    \E table_id \in DOMAIN tables :
       /\ Cardinality(operation_logs) < MaxRowCleans
       /\ clean_table(table_id, "drop-missing", <<cId>>, <<>>)

NextInfer ==
    \/ Import
    \/ CleanRows
    \/ SetPrimaryKey
    \/ CreateRelation
    \/ RefreshColumnProfiles
    \/ RefreshInferredPrimaryKey
    \/ RefreshInferredRelations
    \/ RefreshInference
    \/ ListRelations

SpecInfer == Init /\ [][NextInfer]_vars

(***************************************************************************)
(* The inferred key of tables whose columns gain and lose uniqueness.      *)
(***************************************************************************)
tUpA == <<"A">>

\* "tags": n and q both unique and never missing; trimmed, the values of n
\* coincide; lowercased, those of q do
SrcTags ==
    [cols |-> <<Col(cQ, "VARCHAR"), Col(cN, "VARCHAR")>>,
     rows |-> << <<StrV(tUpA), StrV(tSpA)>>, <<StrV(tA), StrV(tUpA)>> >>]

KeySources == {SrcTags, SrcOrders}

ImportKeyed == \E src \in KeySources : import_csv(src)

KeyCleanRequests ==
    {CleanReq("trim", <<cN>>, <<>>),
     CleanReq("lowercase", <<cQ>>, <<>>),
     CleanReq("drop-missing", <<cId>>, <<>>)}

CleanKeyed ==
    \E table_id \in DOMAIN tables, rq \in KeyCleanRequests :
       /\ Cardinality(operation_logs) < MaxCleans
       /\ clean_table(table_id, rq.action, rq.fields, rq.filters)

NextKeys ==
    \/ ImportKeyed
    \/ CleanKeyed
    \/ SetPrimaryKey
    \/ RefreshColumnProfiles
    \/ RefreshInferredPrimaryKey

SpecKeys == Init /\ [][NextKeys]_vars

(***************************************************************************)
(* The callers: a route runs its service call and then, when the call      *)
(* returned, the refreshes that follow it in the route's body.  The result *)
(* of the last statement tells which statement of the route comes next; no *)
(* other request starts before the route has run its last statement.       *)
(***************************************************************************)
\* the table a route refreshes the profiles of
AffectedTable(r) ==
    IF r.call \in {"merge", "reshape"} THEN r.resultTable ELSE r.tableId

\* the service call of a route returned: refresh_column_profiles is next
AwaitsProfiles ==
    /\ result.status = "ok"
    /\ result.call \in {"import", "clean", "undo", "merge", "reshape"}

\* refresh_inferred_relations is next
AwaitsRelations ==
    /\ result.status = "ok"
    /\ result.call \in {"set_primary_key", "refresh_column_profiles"}

\* no route is between two of its statements
Settled == ~AwaitsProfiles /\ ~AwaitsRelations

CallerImport == Settled /\ Import
CallerClean == Settled /\ CleanRows
CallerUndo == Settled /\ Undo
CallerMerge == Settled /\ Merge
CallerSetPrimaryKey == Settled /\ SetPrimaryKey
CallerRefreshInference == Settled /\ refresh_inference

CallerRefreshProfiles ==
    /\ AwaitsProfiles
    /\ refresh_column_profiles(AffectedTable(result))

CallerRefreshRelations ==
    /\ AwaitsRelations
    /\ refresh_inferred_relations(DefaultThreshold)

NextCallers ==
    \/ CallerImport
    \/ CallerClean
    \/ CallerUndo
    \/ CallerMerge
    \/ CallerSetPrimaryKey
    \/ CallerRefreshInference
    \/ CallerRefreshProfiles
    \/ CallerRefreshRelations

SpecCallers == Init /\ [][NextCallers]_vars

(***************************************************************************)
(* The requests that can be rejected, next to the ones that go through:    *)
(* cleans, derivations and declared keys.                                  *)
(***************************************************************************)
NextValidation == Import \/ Clean \/ Merge \/ Reshape \/ SetPrimaryKey

SpecValidation == Init /\ [][NextValidation]_vars

(***************************************************************************)
(* The catalog as a whole: derivations next to keys, relations and the     *)
(* inference.                                                              *)
(***************************************************************************)
\* the request sets of this specification are the ones that succeed
KeyOnId ==
    \E table_id \in DOMAIN tables :
       /\ \/ Cardinality(DOMAIN primary_keys) < MaxPrimaryKeys
          \/ table_id \in DOMAIN primary_keys
       /\ set_primary_key(table_id, <<cId>>)

MergeOnId ==
    \E left_id \in DOMAIN tables, right_id \in DOMAIN tables :
       /\ Cardinality(TablesOfType("derived")) < MaxDerived
       /\ merge_tables(left_id, right_id, <<cId>>, <<cId>>, "full")

MeltOnId ==
    \E table_id \in DOMAIN tables :
       /\ Cardinality(TablesOfType("derived")) < MaxDerived
       /\ reshape_table(table_id, "wide-to-long", <<cId>>, <<>>,
                        NoColumn, NoColumn)

InferRelations == refresh_inferred_relations(DefaultThreshold)

NextCatalog ==
    \/ Import
    \/ CleanRows
    \/ Undo
    \/ MergeOnId
    \/ MeltOnId
    \/ KeyOnId
    \/ InferRelations
    \/ RefreshInference

SpecCatalog == Init /\ [][NextCatalog]_vars

(***************************************************************************)
(* Declared keys next to inferred ones, and the metadata that shows them.  *)
(***************************************************************************)
\* no field, one field, two fields
DeclaredKeys == {<<>>, <<cId>>, <<cId, cN>>}

DeclareKey ==
    \E table_id \in DOMAIN tables, fields \in DeclaredKeys :
       set_primary_key(table_id, fields)

GetTableMeta == \E table_id \in TableArgs : get_table_meta(table_id)

NextMeta ==
    \/ Import
    \/ DeclareKey
    \/ InferRelations
    \/ GetTableMeta

SpecMeta == Init /\ [][NextMeta]_vars

(***************************************************************************)
(* Queries.                                                                *)
(***************************************************************************)
SortSpec(field, direction) == [field |-> field, direction |-> direction]

QueryReq(offset, limit, filters, sort) ==
    [offset |-> offset, limit |-> limit, filters |-> filters, sort |-> sort]

\* one filter and no sort, the default page
FilterReq(field, op, value) ==
    QueryReq(0, 200, <<Filter(field, op, value)>>, <<>>)

\* every operator on values it accepts, sorts and pages
QueryGoodRequests ==
    {QueryReq(0, 200, <<>>, <<>>),
     FilterReq(cId, "eq", Scalar(IntV(1))),
     FilterReq(cId, "neq", Scalar(IntV(1))),
     FilterReq(cId, "lt", Scalar(IntV(2))),
     FilterReq(cId, "lte", Scalar(IntV(2))),
     FilterReq(cId, "gte", Scalar(IntV(2))),
     FilterReq(cId, "isnull", NoValue),
     FilterReq(cId, "notnull", NoValue),
     FilterReq(cQ, "contains", Scalar(StrV(<<"A">>))),
     FilterReq(cId, "in", List(<<IntV(1), IntV(3)>>)),
     FilterReq(cId, "between", List(<<IntV(2), IntV(3)>>)),
     QueryReq(0, 200, <<Filter(cId, "gt", Scalar(IntV(1)))>>,
              <<SortSpec(cId, "desc")>>),
     QueryReq(1, 2, <<>>, <<SortSpec(cQ, "asc"), SortSpec(cAId, "desc")>>),
     QueryReq(0, 2, <<Filter(cId, "notnull", NoValue),
                      Filter(cN, "contains", Scalar(StrV(<<"a">>)))>>,
              <<SortSpec(cId, "asc")>>)}

\* an unknown field in a filter or a sort, a between or an in whose value is
\* nothing, a scalar, or a list of the wrong length, an unknown operator or
\* direction
QueryBadRequests ==
    {FilterReq(cZ, "eq", Scalar(IntV(1))),
     QueryReq(0, 200, <<>>, <<SortSpec(cZ, "asc")>>),
     QueryReq(0, 200, <<Filter(cId, "notnull", NoValue)>>,
              <<SortSpec(cId, "asc"), SortSpec(cZ, "desc")>>),
     FilterReq(cId, "between", NoValue),
     FilterReq(cId, "between", Scalar(IntV(1))),
     FilterReq(cId, "between", List(<<IntV(1)>>)),
     FilterReq(cId, "between", List(<<IntV(1), IntV(2), IntV(3)>>)),
     FilterReq(cId, "in", NoValue),
     FilterReq(cId, "in", Scalar(IntV(1))),
     FilterReq(cId, "in", List(<<>>)),
     FilterReq(cId, "like", Scalar(IntV(1))),
     QueryReq(0, 200, <<>>, <<SortSpec(cId, "up")>>)}

QueryRows ==
    \E table_id \in TableArgs, rq \in QueryGoodRequests \cup QueryBadRequests :
       query_rows(table_id, rq.offset, rq.limit, rq.filters, rq.sort)

NextQuery == Import \/ CleanRows \/ QueryRows

SpecQuery == Init /\ [][NextQuery]_vars

(***************************************************************************)
(* The routes that pass a table id or a relation id to one service call,   *)
(* and the response each makes of what the call returned or raised.        *)
(***************************************************************************)
UnknownRelation == new_id(pRel, 0)     \* an id no create_relation made

RelationArgs ==
    {e.id : e \in relation_edges \cup relation_edges_inferred}
      \cup {UnknownRelation}

\* id to id between any two table ids; id to nothing, and a column of no
\* table, on the first table id
RoutePayloads ==
    {RelationPayload(p[1], <<cId>>, p[2], <<cId>>, "m:1") :
       p \in TableArgs \X TableArgs}
      \cup {RelationPayload(t, f[1], t, f[2], "m:1") :
               t \in {new_id(pTable, 1)},
               f \in {<<<<cId>>, <<>>>>, <<<<cZ>>, <<cZ>>>>}}

\* the default page, and a filter on a column of no table
RouteQueries ==
    {QueryReq(0, 200, <<>>, <<>>), FilterReq(cZ, "eq", Scalar(IntV(1)))}

\* clean_route: the argument list reads body.filters, which CleanIn does not
\* have, so the handler raises before clean_table is called
clean_route(table_id, action, fields) ==
    /\ result' = [status |-> "AttributeError", call |-> "clean_route",
                  tableId |-> table_id]
    /\ UNCHANGED <<versionVars, primary_keys, relation_edges, inferenceVars>>

\* export: no except clause around the call
export(table_id, format) ==
    IF format = "csv" THEN export_table_csv(table_id)
    ELSE export_table_dta(table_id)

\* the exceptions a route's except clauses name
RouteCatches(call) ==
    CASE call \in {"get_table_meta"} -> {"KeyError"}
      [] call \in {"query_rows", "relation_report", "clean_route"} ->
            {"KeyError", "ValueError"}
      [] call \in {"create_relation"} -> {"ValueError"}
      [] OTHER -> {}

\* the kind of the response: 404 for a caught KeyError, 400 for a caught
\* ValueError, and the 500 of unhandled_exception_handler for the rest
ResponseKind(r) ==
    IF r.status = "ok" THEN "Success"
    ELSE IF r.status \notin RouteCatches(r.call) THEN "Internal"
    ELSE IF r.status = "KeyError" THEN "NotFound"
    ELSE "Validation"

\* the table ids and the relation id of the request behind a result
RequestTables(r) ==
    CASE r.call = "get_table_meta" -> {r.id}
      [] r.call \in {"query_rows", "clean_route", "export_table_csv",
                     "export_table_dta"} -> {r.tableId}
      [] r.call = "create_relation" -> {r.fkTableId, r.pkTableId}
      [] OTHER -> {}

RequestRelations(r) ==
    IF r.call = "relation_report" THEN {r.relationId} ELSE {}

RowsQueryRoute ==
    \E table_id \in TableArgs, rq \in RouteQueries :
       query_rows(table_id, rq.offset, rq.limit, rq.filters, rq.sort)

RelationsCreateRoute ==
    \E payload \in RoutePayloads :
       /\ Cardinality(relation_edges) < MaxRelations
       /\ create_relation(payload)

RelationsReportRoute ==
    \E relation_id \in RelationArgs : relation_report(relation_id)

CleanRoute ==
    \E table_id \in TableArgs : clean_route(table_id, "drop-missing", <<cId>>)

ExportRoute ==
    \E table_id \in TableArgs, format \in {"csv", "dta"} :
       export(table_id, format)

NextRoutes ==
    \/ Import
    \/ InferRelations
    \/ GetTableMeta
    \/ RowsQueryRoute
    \/ RelationsCreateRoute
    \/ RelationsReportRoute
    \/ CleanRoute
    \/ ExportRoute

SpecRoutes == Init /\ [][NextRoutes]_vars

(***************************************************************************)
(* The storage steps.  No call runs in a transaction (db.connect opens a   *)
(* plain connection), so every statement a call executes is a step of its  *)
(* own, and a call can stop between any two of them (the process dies, the *)
(* engine raises).  A call in flight is held in result: the statements it  *)
(* has still to execute and what it will return.  Calls do not overlap.    *)
(* The statement "update dw_meta.tables set updated_at" writes a column    *)
(* the model does not hold and is left out.                                *)
(***************************************************************************)
Running(call, todo, ret) ==
    [status |-> "running", call |-> call, todo |-> todo, ret |-> ret]

InFlight == result.status = "running"

\* an id for a new table: new_id returns a text no earlier call returned,
\* also when an earlier call stopped before its table row was stored; every
\* call that takes a table id creates a physical table first
FreshTableId == new_id(pTable, Cardinality(DOMAIN physical) + 1)

\* an update that removes the table's version rows instead of clearing them
ClearedByDelete(tv, table_id) == {v \in tv : v.table_id # table_id}

\* _set_active_version, first update
ClearedActive(tv, table_id) ==
    {IF v.table_id = table_id THEN [v EXCEPT !.is_active = FALSE] ELSE v :
       v \in tv}

\* _set_active_version, second update
MarkedActive(tv, table_id, new_version_id) ==
    {IF v.id = new_version_id /\ v.table_id = table_id
     THEN [v EXCEPT !.is_active = TRUE] ELSE v : v \in tv}

\* the statements of import_csv / import_xlsx
ImportProgram(table_id, src) ==
    LET phys == _physical_name(table_id, 1)
    IN << [op |-> "create_table", name |-> phys, snap |-> src],
          [op |-> "insert_table", id |-> table_id, source_type |-> "imported"],
          [op |-> "insert_version",
           row |-> VersionRow(NewVersionId(table_id), table_id, 1, phys, TRUE)] >>

\* the statements of clean_table once its checks have passed
CleanProgram(table_id, action, fields, filters) ==
    LET snap == ActiveSnapshot(table_id)
        new_ver == _next_version(table_id)
        new_physical == _physical_name(table_id, new_ver)
        prev_version_id ==
            (CHOOSE v \in ActiveOf(table_versions, table_id) : TRUE).id
        new_version_id == NewVersionId(table_id)
        op_id == new_id(pOp, Cardinality(operation_logs) + 1)
    IN << [op |-> "create_table", name |-> new_physical,
           snap |-> CleanSnapshot(snap, action, fields, filters)],
          [op |-> "insert_version",
           row |-> VersionRow(new_version_id, table_id, new_ver, new_physical,
                              FALSE)],
          [op |-> "clear_active", table_id |-> table_id],
          [op |-> "mark_active", table_id |-> table_id,
           version_id |-> new_version_id],
          [op |-> "set_dirty", table_id |-> table_id],
          [op |-> "insert_log",
           row |-> LogRow(op_id, table_id, clock + 1, prev_version_id,
                          new_version_id)],
          [op |-> "link_log", version_id |-> new_version_id, op_id |-> op_id] >>

\* the statements of undo_last_clean on the row it selected
UndoProgram(row) ==
    << [op |-> "clear_active", table_id |-> row.table_id],
       [op |-> "mark_active", table_id |-> row.table_id,
        version_id |-> row.prev_version_id],
       [op |-> "flag_undone", op_id |-> row.id] >>

\* the statements of merge_tables / reshape_table, those of the
\* refresh_column_profiles that get_table_meta runs for the new table included
DeriveProgram(result_table_id, snap, sources, operation) ==
    LET result_physical == _physical_name(result_table_id, 1)
        names == ListColumns(snap)
    IN << [op |-> "create_table", name |-> result_physical, snap |-> snap],
          [op |-> "insert_table", id |-> result_table_id,
           source_type |-> "derived"],
          [op |-> "insert_version",
           row |-> VersionRow(NewVersionId(result_table_id), result_table_id,
                              1, result_physical, TRUE)],
          [op |-> "insert_lineage",
           row |-> LineageRow(new_id(pLin, Cardinality(lineage_edges) + 1),
                              result_table_id, sources, operation)],
          [op |-> "delete_profiles", table_id |-> result_table_id] >>
        \o [k \in DOMAIN names |->
              [op |-> "insert_profile",
               row |-> ProfileRow(result_table_id, snap, names[k])]]

\* the call goes on with the statements left, or returns
Advance ==
    result' = IF Len(result.todo) = 1 THEN result.ret
              ELSE [result EXCEPT !.todo = Tail(result.todo)]

NextIs(op) == InFlight /\ result.todo # <<>> /\ Head(result.todo).op = op

BeginImport ==
    \E src \in Sources :
       /\ ~InFlight
       /\ Cardinality(DOMAIN physical) < MaxSnapshots
       /\ result' = Running("import", ImportProgram(FreshTableId, src),
                            [status |-> "ok", call |-> "import",
                             tableId |-> FreshTableId])
       /\ UNCHANGED <<versionVars, primary_keys, relation_edges, inferenceVars>>

StepCleanRequests ==
    {CleanReq("drop-missing", <<cId>>, <<>>),
     CleanReq("trim", <<cZ>>, <<>>)}

BeginClean ==
    \E table_id \in TableArgs, rq \in StepCleanRequests :
       /\ ~InFlight
       /\ Cardinality(DOMAIN physical) < MaxSnapshots
       /\ result' =
            IF ~HasActive(table_id) THEN Raised("KeyError")
            ELSE IF CleanRejects(ActiveSnapshot(table_id), rq.action,
                                 rq.fields, rq.filters)
            THEN Raised("ValueError")
            ELSE Running("clean",
                         CleanProgram(table_id, rq.action, rq.fields,
                                      rq.filters),
                         [status |-> "ok", call |-> "clean",
                          operationId |->
                             new_id(pOp, Cardinality(operation_logs) + 1),
                          tableId |-> table_id])
       /\ UNCHANGED <<versionVars, primary_keys, relation_edges, inferenceVars>>

BeginUndo ==
    /\ ~InFlight
    /\ IF UndoCandidates(operation_logs) = {}
       THEN result' = [status |-> "none"]
       ELSE \E row \in LastUndoable(operation_logs) :
              result' = IF row.prev_version_id = NoId THEN [status |-> "none"]
                        ELSE Running("undo", UndoProgram(row),
                                     [status |-> "ok", call |-> "undo",
                                      undoneOperationId |-> row.id,
                                      tableId |-> row.table_id])
    /\ UNCHANGED <<versionVars, primary_keys, relation_edges, inferenceVars>>

BeginMerge ==
    \E left_id \in DOMAIN tables, right_id \in DOMAIN tables :
       /\ ~InFlight
       /\ Cardinality(DOMAIN physical) < MaxSnapshots
       /\ result' =
            IF ~HasActive(left_id) \/ ~HasActive(right_id)
            THEN Raised("KeyError")
            ELSE IF MergeRejects(ActiveSnapshot(left_id),
                                 ActiveSnapshot(right_id), <<cId>>, <<cId>>)
            THEN Raised("ValueError")
            ELSE IF MergeEngineRejects(ActiveSnapshot(left_id),
                                       ActiveSnapshot(right_id), <<cId>>)
            THEN Raised("Internal")
            ELSE Running("merge",
                         DeriveProgram(FreshTableId,
                                       MergeSnapshot(ActiveSnapshot(left_id),
                                                     ActiveSnapshot(right_id),
                                                     <<cId>>, <<cId>>, "full"),
                                       <<left_id, right_id>>, "merge"),
                         [status |-> "ok", call |-> "merge",
                          resultTable |-> FreshTableId])
       /\ UNCHANGED <<versionVars, primary_keys, relation_edges, inferenceVars>>

BeginReshape ==
    \E table_id \in TableArgs :
       /\ ~InFlight
       /\ Cardinality(DOMAIN physical) < MaxSnapshots
       /\ result' =
            IF ~HasActive(table_id) THEN Raised("KeyError")
            ELSE IF ReshapeEngineRejects(ActiveSnapshot(table_id),
                                         "wide-to-long", <<cId>>, <<>>,
                                         NoColumn, NoColumn)
            THEN Raised("Internal")
            ELSE Running("reshape",
                         DeriveProgram(FreshTableId,
                                       MeltSnapshot(ActiveSnapshot(table_id),
                                                    <<cId>>, <<>>),
                                       <<table_id>>, "reshape"),
                         [status |-> "ok", call |-> "reshape",
                          resultTable |-> FreshTableId])
       /\ UNCHANGED <<versionVars, primary_keys, relation_edges, inferenceVars>>

\* "create table": the engine raises when the name is taken
StepCreateTable ==
    /\ NextIs("create_table")
    /\ IF Head(result.todo).name \in DOMAIN physical
       THEN result' = Raised("Internal") /\ UNCHANGED physical
       ELSE /\ physical' = Put(physical, Head(result.todo).name,
                               Head(result.todo).snap)
            /\ Advance
    /\ UNCHANGED <<tables, table_versions, lineage_edges, operation_logs,
                   clock, primary_keys, relation_edges, inferenceVars>>

StepInsertTable ==
    /\ NextIs("insert_table")
    /\ tables' = Put(tables, Head(result.todo).id,
                     [source_type |-> Head(result.todo).source_type,
                      dirty |-> FALSE])
    /\ Advance
    /\ UNCHANGED <<table_versions, physical, lineage_edges, operation_logs,
                   clock, primary_keys, relation_edges, inferenceVars>>

StepInsertVersion ==
    /\ NextIs("insert_version")
    /\ table_versions' = table_versions \cup {Head(result.todo).row}
    /\ Advance
    /\ UNCHANGED <<tables, physical, lineage_edges, operation_logs, clock,
                   primary_keys, relation_edges, inferenceVars>>

StepClearActive ==
    /\ NextIs("clear_active")
    /\ table_versions' = ClearedActive(table_versions,
                                       Head(result.todo).table_id)
    /\ Advance
    /\ UNCHANGED <<tables, physical, lineage_edges, operation_logs, clock,
                   primary_keys, relation_edges, inferenceVars>>

StepMarkActive ==
    /\ NextIs("mark_active")
    /\ table_versions' = MarkedActive(table_versions,
                                      Head(result.todo).table_id,
                                      Head(result.todo).version_id)
    /\ Advance
    /\ UNCHANGED <<tables, physical, lineage_edges, operation_logs, clock,
                   primary_keys, relation_edges, inferenceVars>>

StepSetDirty ==
    /\ NextIs("set_dirty")
    /\ tables' = [t \in DOMAIN tables |->
                    IF t = Head(result.todo).table_id
                    THEN [tables[t] EXCEPT !.dirty = TRUE] ELSE tables[t]]
    /\ Advance
    /\ UNCHANGED <<table_versions, physical, lineage_edges, operation_logs,
                   clock, primary_keys, relation_edges, inferenceVars>>

StepInsertLog ==
    /\ NextIs("insert_log")
    /\ operation_logs' = operation_logs \cup {Head(result.todo).row}
    /\ clock' = clock + 1
    /\ Advance
    /\ UNCHANGED <<tables, table_versions, physical, lineage_edges,
                   primary_keys, relation_edges, inferenceVars>>

StepLinkLog ==
    /\ NextIs("link_log")
    /\ table_versions' =
         {IF v.id = Head(result.todo).version_id
          THEN [v EXCEPT !.op_log_id = Head(result.todo).op_id] ELSE v :
            v \in table_versions}
    /\ Advance
    /\ UNCHANGED <<tables, physical, lineage_edges, operation_logs, clock,
                   primary_keys, relation_edges, inferenceVars>>

StepFlagUndone ==
    /\ NextIs("flag_undone")
    /\ operation_logs' =
         {IF e.id = Head(result.todo).op_id
          THEN [e EXCEPT !.undoable = FALSE] ELSE e : e \in operation_logs}
    /\ Advance
    /\ UNCHANGED <<tables, table_versions, physical, lineage_edges, clock,
                   primary_keys, relation_edges, inferenceVars>>

StepInsertLineage ==
    /\ NextIs("insert_lineage")
    /\ lineage_edges' = lineage_edges \cup {Head(result.todo).row}
    /\ Advance
    /\ UNCHANGED <<tables, table_versions, physical, operation_logs, clock,
                   primary_keys, relation_edges, inferenceVars>>

StepDeleteProfiles ==
    /\ NextIs("delete_profiles")
    /\ column_profiles' =
         {p \in column_profiles : p.table_id # Head(result.todo).table_id}
    /\ Advance
    /\ UNCHANGED <<versionVars, primary_keys, relation_edges,
                   primary_keys_inferred, relation_edges_inferred>>

StepInsertProfile ==
    /\ NextIs("insert_profile")
    /\ column_profiles' = column_profiles \cup {Head(result.todo).row}
    /\ Advance
    /\ UNCHANGED <<versionVars, primary_keys, relation_edges,
                   primary_keys_inferred, relation_edges_inferred>>

\* the call in flight stops where it stands
Interrupt ==
    /\ InFlight
    /\ result' = Raised("Interrupted")
    /\ UNCHANGED <<versionVars, primary_keys, relation_edges, inferenceVars>>

NextSteps ==
    \/ BeginImport
    \/ BeginClean
    \/ BeginUndo
    \/ BeginMerge
    \/ BeginReshape
    \/ StepCreateTable
    \/ StepInsertTable
    \/ StepInsertVersion
    \/ StepClearActive
    \/ StepMarkActive
    \/ StepSetDirty
    \/ StepInsertLog
    \/ StepLinkLog
    \/ StepFlagUndone
    \/ StepInsertLineage
    \/ StepDeleteProfiles
    \/ StepInsertProfile
    \/ Interrupt

SpecSteps == Init /\ [][NextSteps]_vars

(***************************************************************************)
(* Two clean_table calls at once.  A request runs on a connection of its   *)
(* own and no statement is in a transaction, so the statements of two      *)
(* calls interleave in any order.  result holds the two calls: where each  *)
(* stands (pc), what it has read so far, and which of them finished its    *)
(* _set_active_version last.  new_id is taken with the insert it is for,   *)
(* so that no two calls draw one id.                                       *)
(***************************************************************************)
ConcSlots == {1, 2}

IdleCall == [pc |-> "idle"]

Calls ==
    IF result.status = "concurrent" THEN result.calls
    ELSE [i \in ConcSlots |-> IdleCall]

LastActivated == IF result.status = "concurrent" THEN result.last ELSE 0

Concurrent(calls, last) ==
    [status |-> "concurrent", calls |-> calls, last |-> last]

SetCall(i, c) == result' = Concurrent([Calls EXCEPT ![i] = c], LastActivated)

Ended(i) == Calls[i].pc \in {"idle", "done", "failed"}

Failed(c, exc) == [c EXCEPT !.pc = "failed", !.exc = exc]

\* a "create table" that replaces a table of the same name
CreateReplaces(names, name) == FALSE

\* "create table": the engine raises when the name is taken
CreateRejects(names, name) == name \in names

\* an import while no clean is in flight
ConcImport ==
    /\ \A i \in ConcSlots : Ended(i)
    /\ Import

\* clean_table up to its checks: the active physical name, the columns
ConcBeginClean ==
    \E i \in ConcSlots, table_id \in TableArgs, rq \in StepCleanRequests :
       /\ Ended(i)
       /\ Cardinality(DOMAIN physical) < MaxSnapshots
       /\ LET c == [pc |-> "next_version", call |-> "clean", exc |-> "none",
                    table_id |-> table_id, action |-> rq.action,
                    fields |-> rq.fields, filters |-> rq.filters,
                    physical |-> NoId, new_ver |-> 0, new_physical |-> NoId,
                    prev_version_id |-> NoId, new_version_id |-> NoId,
                    now |-> 0, op_id |-> NoId]
          IN IF ~HasActive(table_id)
             THEN SetCall(i, Failed(c, "KeyError"))
             ELSE IF CleanRejects(ActiveSnapshot(table_id), rq.action,
                                  rq.fields, rq.filters)
             THEN SetCall(i, Failed(c, "ValueError"))
             ELSE \E v \in ActiveOf(table_versions, table_id) :
                     SetCall(i, [c EXCEPT !.physical = v.physical_name])
       /\ UNCHANGED <<versionVars, primary_keys, relation_edges, inferenceVars>>

\* new_ver = _next_version(conn, table_id)
ConcNextVersion ==
    \E i \in ConcSlots :
       /\ Calls[i].pc = "next_version"
       /\ SetCall(i, [Calls[i] EXCEPT
                        !.pc = "create_table",
                        !.new_ver = _next_version(Calls[i].table_id),
                        !.new_physical =
                           _physical_name(Calls[i].table_id,
                                          _next_version(Calls[i].table_id))])
       /\ UNCHANGED <<versionVars, primary_keys, relation_edges, inferenceVars>>

\* create table new_physical as select ... from physical
ConcCreateTable ==
    \E i \in ConcSlots :
       /\ Calls[i].pc = "create_table"
       /\ IF CreateRejects(DOMAIN physical, Calls[i].new_physical)
          THEN /\ SetCall(i, Failed(Calls[i], "Internal"))
               /\ UNCHANGED physical
          ELSE /\ physical' =
                    Put(physical, Calls[i].new_physical,
                        CleanSnapshot(physical[Calls[i].physical],
                                      Calls[i].action, Calls[i].fields,
                                      Calls[i].filters))
               /\ SetCall(i, [Calls[i] EXCEPT !.pc = "prev_version"])
       /\ UNCHANGED <<tables, table_versions, lineage_edges, operation_logs,
                      clock, primary_keys, relation_edges, inferenceVars>>

\* prev_version_row: the first row the select of the active versions
\* returns; None[0] raises when there is none
ConcPrevVersion ==
    \E i \in ConcSlots :
       /\ Calls[i].pc = "prev_version"
       /\ IF ~HasActive(Calls[i].table_id)
          THEN SetCall(i, Failed(Calls[i], "TypeError"))
          ELSE \E v \in ActiveOf(table_versions, Calls[i].table_id) :
                  SetCall(i, [Calls[i] EXCEPT !.pc = "insert_version",
                                              !.prev_version_id = v.id])
       /\ UNCHANGED <<versionVars, primary_keys, relation_edges, inferenceVars>>

\* new_version_id, now, and the insert of the version row
ConcInsertVersion ==
    \E i \in ConcSlots :
       /\ Calls[i].pc = "insert_version"
       /\ table_versions' = table_versions \cup
            {VersionRow(NewVersionId(Calls[i].table_id), Calls[i].table_id,
                        Calls[i].new_ver, Calls[i].new_physical, FALSE)}
       /\ clock' = clock + 1
       /\ SetCall(i, [Calls[i] EXCEPT
                        !.pc = "clear_active",
                        !.new_version_id = NewVersionId(Calls[i].table_id),
                        !.now = clock + 1])
       /\ UNCHANGED <<tables, physical, lineage_edges, operation_logs,
                      primary_keys, relation_edges, inferenceVars>>

\* _set_active_version, first update
ConcClearActive ==
    \E i \in ConcSlots :
       /\ Calls[i].pc = "clear_active"
       /\ table_versions' = ClearedActive(table_versions, Calls[i].table_id)
       /\ SetCall(i, [Calls[i] EXCEPT !.pc = "mark_active"])
       /\ UNCHANGED <<tables, physical, lineage_edges, operation_logs, clock,
                      primary_keys, relation_edges, inferenceVars>>

\* _set_active_version, second update
ConcMarkActive ==
    \E i \in ConcSlots :
       /\ Calls[i].pc = "mark_active"
       /\ table_versions' = MarkedActive(table_versions, Calls[i].table_id,
                                         Calls[i].new_version_id)
       /\ result' = Concurrent([Calls EXCEPT ![i].pc = "set_dirty"], i)
       /\ UNCHANGED <<tables, physical, lineage_edges, operation_logs, clock,
                      primary_keys, relation_edges, inferenceVars>>

ConcSetDirty ==
    \E i \in ConcSlots :
       /\ Calls[i].pc = "set_dirty"
       /\ tables' = [t \in DOMAIN tables |->
                       IF t = Calls[i].table_id
                       THEN [tables[t] EXCEPT !.dirty = TRUE] ELSE tables[t]]
       /\ SetCall(i, [Calls[i] EXCEPT !.pc = "insert_log"])
       /\ UNCHANGED <<table_versions, physical, lineage_edges, operation_logs,
                      clock, primary_keys, relation_edges, inferenceVars>>

\* op_id and the insert of the log row, created_at = now
ConcInsertLog ==
    \E i \in ConcSlots :
       /\ Calls[i].pc = "insert_log"
       /\ operation_logs' = operation_logs \cup
            {LogRow(new_id(pOp, Cardinality(operation_logs) + 1),
                    Calls[i].table_id, Calls[i].now,
                    Calls[i].prev_version_id, Calls[i].new_version_id)}
       /\ SetCall(i, [Calls[i] EXCEPT
                        !.pc = "link_log",
                        !.op_id = new_id(pOp, Cardinality(operation_logs) + 1)])
       /\ UNCHANGED <<tables, table_versions, physical, lineage_edges, clock,
                      primary_keys, relation_edges, inferenceVars>>

ConcLinkLog ==
    \E i \in ConcSlots :
       /\ Calls[i].pc = "link_log"
       /\ table_versions' =
            {IF v.id = Calls[i].new_version_id
             THEN [v EXCEPT !.op_log_id = Calls[i].op_id] ELSE v :
               v \in table_versions}
       /\ SetCall(i, [Calls[i] EXCEPT !.pc = "done"])
       /\ UNCHANGED <<tables, physical, lineage_edges, operation_logs, clock,
                      primary_keys, relation_edges, inferenceVars>>

NextConc ==
    \/ ConcImport
    \/ ConcBeginClean
    \/ ConcNextVersion
    \/ ConcCreateTable
    \/ ConcPrevVersion
    \/ ConcInsertVersion
    \/ ConcClearActive
    \/ ConcMarkActive
    \/ ConcSetDirty
    \/ ConcInsertLog
    \/ ConcLinkLog

SpecConc == Init /\ [][NextConc]_vars

(***************************************************************************)
(* Properties of the version manager, under Spec.                          *)
(*                                                                         *)
(* A step of a call is told by what the call returned: a clean step adds a *)
(* row to operation_logs and returns "clean", an undo step returns "undo"  *)
(* or reports nothing (status "none").                                     *)
(***************************************************************************)

\* C1: in every state a call leaves behind (import, clean, merge, reshape,
\* undo), every table of the catalog has exactly one active version row.
C1_ExactlyOneActive ==
    \A t \in DOMAIN tables :
       Cardinality({v \in table_versions : v.table_id = t /\ v.is_active}) = 1

\* an undo has just completed on a table with several versions, and a derived
\* table exists next to it
C1_Witness ==
    /\ result.status = "ok" /\ result.call = "undo"
    /\ Cardinality({v \in table_versions : v.table_id = result.tableId}) >= 2
    /\ \E t \in DOMAIN tables : tables[t].source_type = "derived"
    /\ C1_ExactlyOneActive

\* C2: a clean records the version X that was active before it, and an undo
\* that follows the clean immediately undoes that clean: X is the active
\* version again (its snapshot untouched), the clean's log row is still in the
\* log, and only its undoable flag changed, to false.
C2_CleanUndoRoundTrip ==
    [][ /\ (/\ result'.status = "ok" /\ result'.call = "clean"
            /\ operation_logs' # operation_logs)
           => \E e \in operation_logs' \ operation_logs :
                 /\ e.id = result'.operationId
                 /\ e.undoable
                 /\ \E x \in table_versions :
                       /\ x.table_id = e.table_id /\ x.is_active
                       /\ x.id = e.prev_version_id
        /\ (/\ result.status = "ok" /\ result.call = "clean"
            /\ result'.status = "ok" /\ result'.call = "undo")
           => \E e \in operation_logs :
                 /\ e.id = result.operationId
                 /\ result'.undoneOperationId = e.id
                 /\ {v.id : v \in {w \in table_versions' :
                                      w.table_id = e.table_id /\ w.is_active}}
                      = {e.prev_version_id}
                 /\ operation_logs' =
                      (operation_logs \ {e}) \cup {[e EXCEPT !.undoable = FALSE]}
                 /\ physical' = physical
        /\ (result.status = "ok" /\ result.call = "clean")
           => result'.status # "none"
      ]_vars

\* the latest clean has been undone: its row is in the log, not undoable, and
\* the version it replaced is active
C2_Witness ==
    /\ result.status = "ok" /\ result.call = "undo"
    /\ \E e \in operation_logs :
          /\ e.id = result.undoneOperationId
          /\ e.created_at = clock
          /\ ~e.undoable
          /\ \E x \in table_versions :
                x.id = e.prev_version_id /\ x.is_active /\ x.version = 1

\* C3 as the specification words it: a clean of a table whose active version
\* has number v creates the version numbered v + 1 and activates it.
C3_NewVersionIsActivePlusOne ==
    [][ (/\ result'.status = "ok" /\ result'.call = "clean"
         /\ operation_logs' # operation_logs)
        => \E n \in table_versions', x \in table_versions :
              /\ n.id \notin {v.id : v \in table_versions}
              /\ n.table_id = result'.tableId
              /\ x.table_id = result'.tableId /\ x.is_active
              /\ n.version = x.version + 1
              /\ n.is_active
      ]_vars

\* C3, as the code has it: a clean creates the version numbered one more than
\* the greatest version number of the table (v + 1 when the active version v
\* is the table's highest-numbered one) and makes it the only active version.
C3_NewVersionIsMaxPlusOne ==
    [][ (/\ result'.status = "ok" /\ result'.call = "clean"
         /\ operation_logs' # operation_logs)
        => \E n \in table_versions', x \in table_versions :
              LET old == {v.version : v \in {w \in table_versions :
                                    w.table_id = result'.tableId}}
              IN /\ n.id \notin {v.id : v \in table_versions}
                 /\ n.table_id = result'.tableId
                 /\ x.table_id = result'.tableId /\ x.is_active
                 /\ \A y \in old : y < n.version
                 /\ n.version - 1 \in old
                 /\ (\A y \in old : y <= x.version) => n.version = x.version + 1
                 /\ {v \in table_versions' :
                        v.table_id = result'.tableId /\ v.is_active} = {n}
      ]_vars

\* a clean of a table whose active version was number 1 has created and
\* activated version 3 (clean, undo, clean)
C3_Witness ==
    /\ result.status = "ok" /\ result.call = "clean"
    /\ \E e \in operation_logs, x, n \in table_versions :
          /\ e.id = result.operationId
          /\ x.id = e.prev_version_id /\ x.version = 1
          /\ n.id = e.new_version_id /\ n.version = 3 /\ n.is_active

\* C4: an undo takes the undoable clean row with the greatest created_at,
\* reactivates the version that row recorded as previous, and flips exactly
\* that row; afterwards no row at or after it in creation order is undoable,
\* so the k-th of consecutive undos takes the k-th most recent row that was
\* undoable at the start; and an undo reports nothing only when no clean row
\* is undoable, so each of n consecutive undos over n undoable rows succeeds.
C4_UndoSelectsMostRecent ==
    [][ /\ result'.status = "none"
           => {e \in operation_logs : e.type = "clean" /\ e.undoable} = {}
        /\ (/\ result'.status = "ok" /\ result'.call = "undo"
            /\ operation_logs' # operation_logs)
           => \E e \in operation_logs :
                 /\ e.id = result'.undoneOperationId
                 /\ e.type = "clean" /\ e.undoable
                 /\ \A o \in operation_logs :
                       (o.type = "clean" /\ o.undoable)
                         => o.created_at <= e.created_at
                 /\ {v.id : v \in {w \in table_versions' :
                                      w.table_id = e.table_id /\ w.is_active}}
                      = {e.prev_version_id}
                 /\ operation_logs' =
                      (operation_logs \ {e}) \cup {[e EXCEPT !.undoable = FALSE]}
                 /\ \A o \in operation_logs' :
                       o.created_at >= e.created_at => ~o.undoable
      ]_vars

\* two consecutive undos: the second one took the older of two cleans, the
\* newer one having been undone before it
C4_Witness ==
    /\ result.status = "ok" /\ result.call = "undo"
    /\ \E e, o \in operation_logs :
          /\ e.id = result.undoneOperationId
          /\ e.created_at < o.created_at
          /\ ~e.undoable /\ ~o.undoable
          /\ \E x \in table_versions : x.id = e.prev_version_id /\ x.is_active

\* C5: an undo that finds no undoable clean row reports that there was
\* nothing to undo and leaves every store as it was.
C5_UndoNothing ==
    [][ (/\ {e \in operation_logs : e.type = "clean" /\ e.undoable} = {}
         /\ \/ result'.status = "none"
            \/ result'.status = "ok" /\ result'.call = "undo")
        => /\ result'.status = "none"
           /\ UNCHANGED <<tables, table_versions, physical, primary_keys,
                          primary_keys_inferred, column_profiles,
                          relation_edges, relation_edges_inferred,
                          lineage_edges, operation_logs, clock>>
      ]_vars

\* an undo reported nothing although the log holds clean rows, all of them
\* undone already
C5_Witness ==
    /\ result.status = "none"
    /\ operation_logs # {}
    /\ \A e \in operation_logs : ~e.undoable

\* C6: the version numbers of a table are distinct and include 1; a new
\* version row takes one more than the greatest number the table has (1 when
\* it has none); no version row is removed or renumbered, so no number is
\* used twice.
C6_VersionNumbers ==
    /\ [](\A t \in DOMAIN tables :
            LET rows == {v \in table_versions : v.table_id = t}
            IN /\ \A v, w \in rows : v.version = w.version => v = w
               /\ \E v \in rows : v.version = 1)
    /\ [][ /\ \A n \in table_versions' :
                n.id \notin {v.id : v \in table_versions}
                  => LET old == {v.version : v \in {w \in table_versions :
                                        w.table_id = n.table_id}}
                     IN /\ \A y \in old : y < n.version
                        /\ old = {} => n.version = 1
                        /\ old # {} => n.version - 1 \in old
           /\ \A v \in table_versions :
                \E w \in table_versions' :
                   /\ w.id = v.id /\ w.table_id = v.table_id
                   /\ w.version = v.version
                   /\ w.physical_name = v.physical_name
         ]_vars

\* a table has the versions 1, 2 and 3 and an active version that is not the
\* latest one
C6_Witness ==
    \E t \in DOMAIN tables :
       /\ {v.version : v \in {w \in table_versions : w.table_id = t}} = {1, 2, 3}
       /\ \E v \in table_versions : v.table_id = t /\ v.is_active /\ v.version = 2

\* C13: a merge or a reshape leaves the log rows undo can select (the
\* undoable clean rows) as they were; an undo, whatever it reports, leaves
\* the tables and the lineage edges as they were; and while the log is empty
\* (no clean has run), an undo reports nothing to undo and leaves every
\* version row, hence every derived table's active version, as it was.
C13_DerivationsNotUndoable ==
    [][ /\ (result'.status = "ok" /\ result'.call \in {"merge", "reshape"})
           => {e \in operation_logs' : e.type = "clean" /\ e.undoable}
                = {e \in operation_logs : e.type = "clean" /\ e.undoable}
        /\ (\/ result'.status = "none"
            \/ result'.status = "ok" /\ result'.call = "undo")
           => /\ tables' = tables
              /\ lineage_edges' = lineage_edges
              /\ physical' = physical
              /\ operation_logs = {}
                   => /\ result'.status = "none"
                      /\ table_versions' = table_versions
      ]_vars

\* an undo has reported nothing to undo in a catalog without a log row that
\* holds a derived table, its lineage edge and its active version
C13_Witness ==
    /\ result.status = "none"
    /\ operation_logs = {}
    /\ \E t \in DOMAIN tables, e \in lineage_edges, v \in table_versions :
          /\ tables[t].source_type = "derived"
          /\ e.derived_table_id = t
          /\ v.table_id = t /\ v.is_active /\ v.version = 1

\* C18: after a full-outer merge of two tables on key lists of one length,
\* the report's matchedRows, unmatchedLeft and unmatchedRight add up to its
\* rowsAfter, and rowsAfter is the number of rows of the new derived table.
C18_MergeArithmetic ==
    (result.status = "ok" /\ result.call = "merge" /\ result.joinType = "full")
      => /\ result.matchedRows + result.unmatchedLeft + result.unmatchedRight
              = result.rowsAfter
         /\ HasActive(result.resultTable)
         /\ result.rowsAfter = Len(ActiveSnapshot(result.resultTable).rows)

\* a full-outer merge with rows of all three kinds
C18_Witness ==
    /\ result.status = "ok" /\ result.call = "merge"
    /\ result.joinType = "full"
    /\ result.matchedRows > 0
    /\ result.unmatchedLeft > 0
    /\ result.unmatchedRight > 0
    /\ result.rowsAfter = Len(ActiveSnapshot(result.resultTable).rows)

\* C19: the physical name of a version is _physical_name of its table id and
\* version number, two different (table id, version) pairs of the catalog's
\* tables never have one physical name, and so no two version rows of the
\* catalog point to the same snapshot.
C19_PhysicalNameInjective ==
    /\ \A v \in table_versions :
          v.physical_name = _physical_name(v.table_id, v.version)
    /\ Cardinality({_physical_name(a, i) :
                       a \in DOMAIN tables, i \in 1..(MaxCleans + 1)})
          = Cardinality(DOMAIN tables) * (MaxCleans + 1)
    /\ \A v, w \in table_versions :
          v # w => v.physical_name # w.physical_name

\* two tables in the catalog, one of them with three versions
C19_Witness ==
    \E v, w, x, y \in table_versions :
       /\ v.table_id = w.table_id /\ w.table_id = x.table_id
       /\ v.version = 1 /\ w.version = 2 /\ x.version = 3
       /\ y.table_id # v.table_id
       /\ Cardinality({r.physical_name : r \in {v, w, x, y}}) = 4

(***************************************************************************)
(* Properties of the key and relation inference, under SpecInfer.          *)
(***************************************************************************)

\* C7: once a table has an explicit primary key, an inference pass on it
\* (refresh_inferred_primary_key on the table, or a refresh of the whole
\* inference) leaves no inferred key row for the table: a row left over from
\* before the explicit key was set is cleared, and none is written.
C7_NoInferredKeyBesideExplicit ==
    \A t \in DOMAIN primary_keys :
       (/\ result.status = "ok"
        /\ \/ result.call \in {"refresh_inference", "refresh_inferred_relations"}
           \/ /\ result.call = "refresh_inferred_primary_key"
              /\ result.tableId = t)
         => t \notin DOMAIN primary_keys_inferred

\* C8 as the specification words it: the inferred store never holds an edge
\* with the (fkTable, fkFields, pkTable, pkFields) key of a stored explicit
\* edge.
C8_NoInferredDuplicateStored ==
    \A i \in relation_edges_inferred, e \in relation_edges :
       <<i.fk_table_id, i.fk_fields_json, i.pk_table_id, i.pk_fields_json>>
         # <<e.fk_table_id, e.fk_fields_json, e.pk_table_id, e.pk_fields_json>>

\* C8, as the code has it: the inferred store may hold an edge with the key
\* of a stored explicit edge, but the listing list_relations returns never
\* holds an inferred edge with the key of a stored explicit edge.
C8_NoInferredDuplicateListed ==
    (result.status = "ok" /\ result.call = "list_relations")
      => \A l \in result.relations :
            l.id \in {i.id : i \in relation_edges_inferred}
              => \A e \in relation_edges :
                    <<l.fkTableId, l.fkFields, l.pkTableId, l.pkFields>>
                      # <<e.fk_table_id, json_loads(e.fk_fields_json),
                          e.pk_table_id, json_loads(e.pk_fields_json)>>

\* a listing has been returned while the inferred store holds an edge with
\* the key of the explicit edge
C8_Witness ==
    /\ result.status = "ok" /\ result.call = "list_relations"
    /\ \E i \in relation_edges_inferred, e \in relation_edges :
          /\ i.fk_table_id = e.fk_table_id
          /\ i.fk_fields_json = e.fk_fields_json
          /\ i.pk_table_id = e.pk_table_id
          /\ i.pk_fields_json = e.pk_fields_json
          /\ i.id \notin {l.id : l \in result.relations}
          /\ e.id \in {l.id : l \in result.relations}

\* C9: the listing list_relations returns holds every explicit edge and
\* exactly those inferred edges whose (fkTable, fkFields, pkTable, pkFields)
\* key is the key of no explicit edge, each with its id, endpoints, field
\* lists and cardinality.
C9_ListingIsExplicitPlusFreshInferred ==
    (result.status = "ok" /\ result.call = "list_relations")
      => LET Key(r) == <<r.fk_table_id, json_loads(r.fk_fields_json),
                         r.pk_table_id, json_loads(r.pk_fields_json)>>
             Listed(r) == [id |-> r.id, fkTableId |-> r.fk_table_id,
                           fkFields |-> json_loads(r.fk_fields_json),
                           pkTableId |-> r.pk_table_id,
                           pkFields |-> json_loads(r.pk_fields_json),
                           cardinality |-> r.cardinality]
         IN result.relations =
              {Listed(e) : e \in relation_edges}
                \cup {Listed(i) :
                        i \in {x \in relation_edges_inferred :
                                 \A e \in relation_edges : Key(e) # Key(x)}}

\* a listing of an explicit edge and an inferred edge of another key, the
\* inferred duplicate of the explicit edge being stored and left out
C9_Witness ==
    /\ result.status = "ok" /\ result.call = "list_relations"
    /\ Cardinality(result.relations) = 2
    /\ Cardinality(relation_edges) = 1
    /\ Cardinality(relation_edges_inferred) = 2
    /\ \E l \in result.relations : l.id \in {i.id : i \in relation_edges_inferred}

\* C10: a refresh_inferred_relations that follows a refresh_inferred_relations
\* with the same threshold, nothing having been called in between, leaves the
\* inferred store as the first one left it: the same rows, hence the same ids,
\* endpoints, field lists, cardinalities and coverages.
C10_RefreshTwiceSameStore ==
    [][ (/\ result.status = "ok"
         /\ result.call = "refresh_inferred_relations"
         /\ result'.status = "ok"
         /\ result'.call = "refresh_inferred_relations"
         /\ result'.threshold = result.threshold)
        => relation_edges_inferred' = relation_edges_inferred
      ]_vars

\* a refresh has left two inferred edges, one of them 1:1 with full coverage
\* and one m:1 with coverage 2/3
C10_Witness ==
    /\ result.status = "ok" /\ result.call = "refresh_inferred_relations"
    /\ \E i, j \in relation_edges_inferred :
          /\ i.cardinality = "1:1" /\ i.coverage = [t |-> "dbl", i |-> 1,
                                                    d |-> 1, s |-> <<>>]
          /\ j.cardinality = "m:1" /\ j.coverage = [t |-> "dbl", i |-> 2,
                                                    d |-> 3, s |-> <<>>]

(***************************************************************************)
(* Properties of the catalog as a whole, under SpecCatalog.                *)
(***************************************************************************)

\* C11: whatever imports, merges, reshapes, cleans, undos and inference
\* refreshes have run, both ends of every stored inferred relation edge are
\* tables of the catalog whose source_type is not "derived".
C11_NoInferredEdgeOnDerived ==
    \A e \in relation_edges_inferred :
       /\ e.fk_table_id \in DOMAIN tables
       /\ e.pk_table_id \in DOMAIN tables
       /\ tables[e.fk_table_id].source_type # "derived"
       /\ tables[e.pk_table_id].source_type # "derived"

\* an inference pass has stored an edge on the column id while a derived
\* table with a column id and profiles of its own is in the catalog
C11_Witness ==
    /\ result.status = "ok"
    /\ result.call \in {"refresh_inferred_relations", "refresh_inference"}
    /\ \E e \in relation_edges_inferred : e.fk_fields_json = _json_dumps(<<cId>>)
    /\ \E t \in DOMAIN tables :
          /\ tables[t].source_type = "derived"
          /\ \E p \in column_profiles :
                p.table_id = t /\ p.column_name = cId /\ p.distinct_count > 0

\* C12: the lineage edges and the derived tables correspond one to one (every
\* edge names a derived table, every derived table is named by exactly one
\* edge); a merge that succeeds adds exactly one edge, for its result table,
\* with the sources [left, right] and the operation merge; a reshape that
\* succeeds adds exactly one, with the sources [source] and the operation
\* reshape; no other call (import, clean, undo, set_primary_key, an inference
\* refresh, a call that fails) adds or removes an edge.
C12_LineagePerDerivedTable ==
    /\ [](/\ \A e \in lineage_edges :
             /\ e.derived_table_id \in DOMAIN tables
             /\ tables[e.derived_table_id].source_type = "derived"
          /\ \A t \in DOMAIN tables :
               tables[t].source_type = "derived"
                 => Cardinality({e \in lineage_edges :
                                   e.derived_table_id = t}) = 1
          /\ \A e, f \in lineage_edges :
               (e.id = f.id \/ e.derived_table_id = f.derived_table_id)
                 => e = f)
    /\ [][ IF result'.status = "ok" /\ result'.call = "merge"
           THEN lineage_edges' = lineage_edges \cup
                  {[id |-> e.id, derived_table_id |-> result'.resultTable,
                    source_table_ids |->
                       <<result'.leftTable, result'.rightTable>>,
                    operation |-> "merge"] :
                     e \in lineage_edges' \ lineage_edges}
                /\ Cardinality(lineage_edges' \ lineage_edges) = 1
           ELSE IF result'.status = "ok" /\ result'.call = "reshape"
           THEN lineage_edges' = lineage_edges \cup
                  {[id |-> e.id, derived_table_id |-> result'.resultTable,
                    source_table_ids |-> <<result'.sourceTable>>,
                    operation |-> "reshape"] :
                     e \in lineage_edges' \ lineage_edges}
                /\ Cardinality(lineage_edges' \ lineage_edges) = 1
           ELSE lineage_edges' = lineage_edges
         ]_vars

\* the table a merge of two different tables derived has its one edge, and
\* a clean, an undo and a set_primary_key have run since
C12_Witness ==
    /\ result.status = "ok" /\ result.call = "set_primary_key"
    /\ \E o \in operation_logs : ~o.undoable
    /\ \E e \in lineage_edges :
          /\ e.operation = "merge"
          /\ e.source_table_ids[1] # e.source_table_ids[2]
          /\ tables[e.derived_table_id].source_type = "derived"

\* C15: a mutation that succeeds (set_primary_key, create_relation, import,
\* clean, merge, reshape, undo) leaves the stored column profiles, inferred
\* primary keys and inferred relation edges as they were.
C15_MutationsLeaveInference ==
    [][ (/\ result'.status = "ok"
         /\ result'.call \in {"set_primary_key", "create_relation", "import",
                              "clean", "merge", "reshape", "undo"})
        => /\ column_profiles' = column_profiles
           /\ primary_keys_inferred' = primary_keys_inferred
           /\ relation_edges_inferred' = relation_edges_inferred
      ]_vars

(***************************************************************************)
(* Properties of the storage steps, under SpecSteps.                       *)
(***************************************************************************)

\* C14: across every step (a statement of a call, whether the call runs to
\* its end or stops midway, and the stop itself) every version row is still
\* there with its id, table, number and physical name, every physical table
\* is still there with its content, and every log row is still there, equal
\* to what it was but possibly for its undoable flag, which only an undo
\* changes, and only to false.
C14_AppendOnly ==
    [][ /\ \A v \in table_versions :
              \E w \in table_versions' :
                 /\ w.id = v.id /\ w.table_id = v.table_id
                 /\ w.version = v.version
                 /\ w.physical_name = v.physical_name
        /\ Cardinality(table_versions') >= Cardinality(table_versions)
        /\ \A n \in DOMAIN physical :
              n \in DOMAIN physical' /\ physical'[n] = physical[n]
        /\ \A e \in operation_logs :
              \E f \in operation_logs' :
                 /\ [f EXCEPT !.undoable = e.undoable] = e
                 /\ f.undoable # e.undoable
                      => /\ ~f.undoable
                         /\ result.status = "running" /\ result.call = "undo"
        /\ Cardinality(operation_logs') >= Cardinality(operation_logs)
      ]_vars

\* a clean stopped after it had deactivated the table's versions: the table
\* has two version rows, none of them active, two snapshots and no log row
C14_Witness ==
    /\ result.status = "Interrupted"
    /\ \E t \in DOMAIN tables :
          /\ Cardinality({v \in table_versions : v.table_id = t}) = 2
          /\ \A v \in table_versions : v.table_id = t => ~v.is_active
          /\ \A v \in table_versions :
                v.table_id = t => v.physical_name \in DOMAIN physical
          /\ \A e \in operation_logs : e.table_id # t

(***************************************************************************)
(* Properties of declared keys, under SpecMeta.                            *)
(***************************************************************************)

\* C16: for every table with an explicit primary key row, whatever inferred
\* row the table has and whatever list the explicit row holds, the key
\* relation inference loads for the table is the explicit field list, and the
\* fields get_table_meta flags isPrimaryKey are exactly the explicit fields.
C16_ExplicitKeyIsEffective ==
    \A t \in DOMAIN primary_keys :
       /\ _load_primary_key_fields(primary_keys, primary_keys_inferred, t)
            = [found |-> TRUE, fields |-> json_loads(primary_keys[t])]
       /\ (/\ result.status = "ok" /\ result.call = "get_table_meta"
           /\ result.id = t)
          => {result.fields[k].name :
                k \in {j \in DOMAIN result.fields :
                         result.fields[j].isPrimaryKey}}
               = Range(json_loads(primary_keys[t]))

(***************************************************************************)
(* Properties of query_rows, under SpecQuery.                              *)
(***************************************************************************)

\* C17: a query_rows on a table of the catalog raises the validation error
\* (ValueError), and so returns no rows, whenever one of its filters or sort
\* entries names a field that is no column of the active version, the value
\* of one of its between filters is not a list of exactly two bounds, or the
\* value of one of its in filters is not a list with at least one item.
C17_MalformedQueryRejected ==
    (/\ result.status # "running"
     /\ "call" \in DOMAIN result
     /\ result.call = "query_rows"
     /\ result.tableId \in DOMAIN tables)
      => LET names == Range(ListColumns(ActiveSnapshot(result.tableId)))
             IsList(value, lengths) ==
                value.kind = "list" /\ Len(value.items) \in lengths
         IN (\/ \E k \in DOMAIN result.filters :
                   \/ result.filters[k].field \notin names
                   \/ /\ result.filters[k].op = "between"
                      /\ ~IsList(result.filters[k].value, {2})
                   \/ /\ result.filters[k].op = "in"
                      /\ ~IsList(result.filters[k].value, 1..3)
             \/ \E k \in DOMAIN result.sort : result.sort[k].field \notin names)
              => /\ result.status = "ValueError"
                 /\ "rows" \notin DOMAIN result

(***************************************************************************)
(* Properties of the routes, under SpecRoutes.                             *)
(***************************************************************************)
\* C20: a request that names a table id or a relation id that is not in the
\* catalog is answered with the NotFound kind, never with Internal and never
\* with success.
C20_UnknownIdIsNotFound ==
    (/\ "call" \in DOMAIN result
     /\ \/ \E t \in RequestTables(result) : t \notin DOMAIN tables
        \/ \E e \in RequestRelations(result) :
              e \notin {x.id : x \in relation_edges \cup relation_edges_inferred})
      => ResponseKind(result) = "NotFound"

(***************************************************************************)
(* Properties of overlapping calls, under SpecConc.                        *)
(***************************************************************************)
\* both calls are cleans of one table that have finished _set_active_version
BothActivated ==
    /\ \A i \in ConcSlots :
          Calls[i].pc \in {"set_dirty", "insert_log", "link_log", "done"}
    /\ Calls[1].table_id = Calls[2].table_id

\* C21: once two overlapping activations of one table have both completed,
\* exactly one version of the table is active, and it is the target of the
\* activation that finished last.
C21_LastActivationWins ==
    BothActivated =>
       {v.id : v \in ActiveOf(table_versions, Calls[1].table_id)}
          = {Calls[LastActivated].new_version_id}

(***************************************************************************)
(* Properties of an activation in progress, under SpecSteps.               *)
(***************************************************************************)
\* C22: in every state, those between the statements of a clean or an undo
\* and those a stopped call leaves behind included, each table that has
\* versions has exactly one active version.
C22_OneActiveBetweenStatements ==
    \A t \in {v.table_id : v \in table_versions} :
       Cardinality(ActiveOf(table_versions, t)) = 1

(***************************************************************************)
(* Properties of the clean log, under Spec.                                *)
(***************************************************************************)
\* C23: a successful clean adds exactly one row to the operation log, of
\* type clean and undoable, whose prev_version_id is the version that was
\* active before the call and whose new_version_id is the version active
\* after it; it sets the table's dirty flag and adds no lineage edge.
C23_CleanLogsItself ==
    [][ (result'.status = "ok" /\ result'.call = "clean")
        => /\ \E e \in operation_logs' :
                 /\ e \notin operation_logs
                 /\ operation_logs' = operation_logs \cup {e}
                 /\ e.id = result'.operationId
                 /\ e.table_id = result'.tableId
                 /\ e.type = "clean" /\ e.undoable
                 /\ {v.id : v \in ActiveOf(table_versions, e.table_id)}
                       = {e.prev_version_id}
                 /\ {v.id : v \in ActiveOf(table_versions', e.table_id)}
                       = {e.new_version_id}
                 /\ e.prev_version_id # e.new_version_id
           /\ tables'[result'.tableId].dirty
           /\ lineage_edges' = lineage_edges
      ]_vars

\* the second clean of a table: its row follows the first clean's row, from
\* the version the first clean made to a new active one, and the table is
\* dirty
C23_Witness ==
    /\ result.status = "ok" /\ result.call = "clean"
    /\ tables[result.tableId].dirty
    /\ \E e, f \in operation_logs :
          /\ e.id = result.operationId /\ e.undoable
          /\ f.table_id = e.table_id /\ f.new_version_id = e.prev_version_id
          /\ ActiveOf(table_versions, e.table_id) # {}
          /\ \A v \in ActiveOf(table_versions, e.table_id) :
                v.id = e.new_version_id

(***************************************************************************)
(* Properties of rejected requests, under SpecValidation.                  *)
(***************************************************************************)
\* C24: a clean, merge, reshape or set_primary_key request that is rejected
\* with a validation error leaves the catalog as it was: no snapshot, version
\* row, table, lineage edge, log row or key row is created, and every active
\* version stays what it was.
C24_RejectedRequestWritesNothing ==
    [][ result'.status = "ValueError"
        => UNCHANGED <<tables, table_versions, physical, lineage_edges,
                       operation_logs, clock, primary_keys, relation_edges,
                       primary_keys_inferred, column_profiles,
                       relation_edges_inferred>>
      ]_vars

\* a request rejected on a catalog that has a cleaned table, a derived table
\* and a declared key
C24_Witness ==
    /\ result.status = "ValueError"
    /\ operation_logs # {}
    /\ lineage_edges # {}
    /\ DOMAIN primary_keys # {}

(***************************************************************************)
(* Properties of the inferred relations, under SpecInfer.                  *)
(***************************************************************************)
\* the non-missing normalised values of a column of a table's active version
C25_Values(table_id, c) ==
    LET keys == KeyColumn(ActiveSnapshot(table_id), c)
    IN [rows |-> {r \in DOMAIN keys : keys[r] # Null},
        keys |-> keys]

\* matched / total >= threshold on a column that has a non-missing value
C25_Covered(fk, pk, c, threshold) ==
    LET f == C25_Values(fk, c)
        pkv == C25_Values(pk, c)
        pks == {pkv.keys[r] : r \in pkv.rows}
        total == Cardinality(f.rows)
        matched == Cardinality({r \in f.rows : f.keys[r] \in pks})
    IN /\ total > 0
       /\ matched * threshold.d >= threshold.i * total

C25_Stored(edges, fk, pk, c) ==
    {e \in edges : /\ e.fk_table_id = fk
                   /\ e.pk_table_id = pk
                   /\ e.fk_fields_json = _json_dumps(<<c>>)
                   /\ e.pk_fields_json = _json_dumps(<<c>>)}

C26_Tier(name) ==
    IF name = <<"i", "d">> THEN 1
    ELSE IF Len(name) >= 3 /\ SubSeq(name, Len(name) - 2, Len(name)) = <<"_", "i", "d">>
    THEN 2
    ELSE 3

\* a comes before b: by tier, lexicographic within a tier
C26_Before(a, b) ==
    \/ C26_Tier(a) < C26_Tier(b)
    \/ C26_Tier(a) = C26_Tier(b) /\ TextLess(a, b)

\* the columns whose stored profile has rows, is unique and is not nullable
C26_Candidates(table_id) ==
    {p.column_name : p \in {q \in column_profiles :
                               /\ q.table_id = table_id
                               /\ q.row_count > 0
                               /\ q.is_unique
                               /\ ~q.inferred_nullable}}

C27_Undoable(table_id) ==
    {e \in operation_logs :
        e.type = "clean" /\ e.undoable /\ e.table_id = table_id}

\* the most recently created of them
C27_Newest(table_id) ==
    {e \in C27_Undoable(table_id) :
        \A o \in C27_Undoable(table_id) : o.created_at <= e.created_at}

\* C27: with cleans and undos run one at a time, for every table that has an
\* undoable clean entry the new version of its most recently created
\* undoable clean entry is the table's active version.
C27_NewestUndoableIsLive ==
    \A t \in DOMAIN tables :
       \A e \in C27_Newest(t) :
          {v.id : v \in ActiveOf(table_versions, t)} = {e.new_version_id}

\* an undo has reverted the later of two cleans of a table, the earlier one
\* is still undoable
C27_Witness ==
    /\ result.status = "ok"
    /\ result.call = "undo"
    /\ \E e \in C27_Newest(result.tableId) :
          \E u \in operation_logs :
             /\ u.id = result.undoneOperationId
             /\ u.table_id = e.table_id
             /\ ~u.undoable
             /\ u.created_at > e.created_at
             /\ u.prev_version_id = e.new_version_id

(***************************************************************************)
(* Properties of the log rows of overlapping cleans, under SpecConc.       *)
(***************************************************************************)
\* the log row a clean call has written
C28_LogOf(c) == {e \in operation_logs : e.id = c.op_id}

\* C28: also when two cleans of one table run with their statements
\* interleaved, the version a clean's log row records as prev_version_id is
\* the version whose snapshot the clean's new snapshot was computed from.
C28_PrevVersionIsTheSource ==
    \A i \in ConcSlots :
       Calls[i].pc \in {"link_log", "done"}
         => \A e \in C28_LogOf(Calls[i]) :
               \A v \in table_versions :
                  v.id = e.prev_version_id
                    => v.physical_name = Calls[i].physical

(***************************************************************************)
(* Properties of the version rows of overlapping cleans, under SpecConc.   *)
(***************************************************************************)
\* C29: when two cleans of one table run with their statements interleaved,
\* no two version rows of the table carry the same version number or the
\* same physical name: of two cleans that computed the same next version, at
\* most one creates its snapshot and version row, the other fails before it
\* writes a catalog row.
C29_VersionRowsStayDistinct ==
    /\ \A v \in table_versions : \A w \in table_versions :
          (/\ v.table_id = w.table_id
           /\ \/ v.version = w.version
              \/ v.physical_name = w.physical_name)
          => v = w
    /\ (/\ \A i \in ConcSlots : Calls[i].pc # "idle" /\ Calls[i].new_ver > 0
        /\ Calls[1].table_id = Calls[2].table_id
        /\ Calls[1].new_ver = Calls[2].new_ver)
       => \E i \in ConcSlots :
             \/ Calls[i].pc \in {"next_version", "create_table"}
             \/ /\ Calls[i].pc = "failed"
                /\ Calls[i].exc = "Internal"
                /\ Calls[i].new_version_id = NoId
                /\ Calls[i].op_id = NoId

\* two cleans computed the same next version; one has completed, the other
\* failed at its create table
C29_Witness ==
    /\ \A i \in ConcSlots : Calls[i].pc \in {"done", "failed"}
    /\ \E i \in ConcSlots : Calls[i].pc = "done"
    /\ \E i \in ConcSlots : Calls[i].pc = "failed" /\ Calls[i].exc = "Internal"
    /\ Calls[1].table_id = Calls[2].table_id
    /\ Calls[1].new_ver = Calls[2].new_ver
    /\ Calls[1].new_ver > 0

(***************************************************************************)
(* Properties of the stored inferred keys, under SpecCallers.              *)
(***************************************************************************)
\* column c of the table's active version is unique and has no missing value
C30_IsKeyNow(table_id, c) ==
    LET snap == ActiveSnapshot(table_id)
    IN /\ c \in Range(ListColumns(snap))
       /\ ProfileRow(table_id, snap, c).is_unique
       /\ ~ProfileRow(table_id, snap, c).inferred_nullable

\* C30: once every route has run the refreshes that follow its mutation,
\* every stored inferred key row, of an imported or a derived table, names a
\* column that is unique and free of missing values in the table's active
\* version.
C30_InferredKeysAreKeys ==
    Settled =>
       \A t \in DOMAIN primary_keys_inferred :
          \A k \in DOMAIN json_loads(primary_keys_inferred[t]) :
             C30_IsKeyNow(t, json_loads(primary_keys_inferred[t])[k])

====
